---- MODULE Spec2Model ----
(***************************************************************************)
(* A model of the zillow client (src/zillow.go, second revision, lines     *)
(* 446-1106): eleven operations, each of which builds url.Values from its  *)
(* request, issues one http.Get through zillow.get and decodes the body    *)
(* with encoding/xml into the operation's result struct.                   *)
(*                                                                         *)
(* Strings are sequences of tokens.  A token is one character ("a", "&")   *)
(* or a fixed word of the source that holds no character the code ever     *)
(* inspects ("zpid", "Zestimate", "http:").  Concatenation of strings is   *)
(* concatenation of sequences, so escaping, splitting and parsing are      *)
(* computed character by character where it matters.                       *)
(***************************************************************************)
EXTENDS Integers, Sequences, FiniteSets, TLC

(***************************************************************************)
(* Bounds of the model.                                                    *)
(***************************************************************************)
MaxCalls == 2

(***************************************************************************)
(* Generic helpers.                                                        *)
(***************************************************************************)
Nil == <<>>

Ptr(v) == <<v>>

RECURSIVE Flatten(_)
Flatten(ss) == IF ss = <<>> THEN <<>> ELSE Head(ss) \o Flatten(Tail(ss))

Range(s) == {s[i] : i \in 1..Len(s)}

Digits == <<"0", "1", "2", "3", "4", "5", "6", "7", "8", "9">>

DigitVal(ch) == (CHOOSE i \in 1..10 : Digits[i] = ch) - 1

IsDigit(ch) == \E i \in 1..10 : Digits[i] = ch

(***************************************************************************)
(* strconv.Itoa and strconv.FormatBool, as the operations use them.        *)
(***************************************************************************)
RECURSIVE FormatNat(_)
FormatNat(n) == IF n < 10 THEN <<Digits[n + 1]>>
                ELSE FormatNat(n \div 10) \o <<Digits[(n % 10) + 1]>>

Itoa(n) == IF n < 0 THEN <<"-">> \o FormatNat(0 - n) ELSE FormatNat(n)

FormatBool(b) == IF b THEN <<"t", "r", "u", "e">> ELSE <<"f", "a", "l", "s", "e">>

(***************************************************************************)
(* The package constants.                                                  *)
(***************************************************************************)
baseUrl == <<"http:", "/", "/", "www.zillow.com", "/", "webservice", "/">>

zwsIdParam == "zws-Id"
zpidParam == "zpid"
rentzestimateParam == "rentzestimate"
addressParam == "address"
cityStateZipParam == "citystatezip"
unitTypeParam == "unit-type"
widthParam == "width"
heightParam == "height"
chartDurationParam == "chartDuration"
countParam == "count"
cityParam == "city"
stateParam == "state"
neighboorhoodParam == "neightborhood"
zipParam == "zip"
countryParam == "country"
childTypeParam == "childtype"
regionIdParam == "regionId"
priceParam == "price"
downParam == "down"
dollarsDownParam == "dollarsdown"

zestimatePath == "Zestimate"
searchResultsPath == "SearchResults"
chartPath == "Chart"
compsPath == "Comps"
deepCompsPath == "DeepComps"
deepSearchPath == "DeepSearchResults"
updatedPropertyDetailsPath == "UpdatedPropertyDetails"
regionChildrenPath == "RegionChildren"
regionChartPath == "RegionChart"
rateSummaryPath == "RateSummary"
monthlyPaymentsPath == "MonthlyPayments"

(***************************************************************************)
(* url.Values.Encode: the keys in sorted (byte) order, each value as       *)
(* QueryEscape(key) "=" QueryEscape(value), joined by "&".  The keys are   *)
(* the twenty constants above; SortedKeys is their byte order.             *)
(***************************************************************************)
SortedKeys == <<"address", "chartDuration", "childtype", "city", "citystatezip",
                "count", "country", "dollarsdown", "down", "height",
                "neightborhood", "price", "regionId", "rentzestimate", "state",
                "unit-type", "width", "zip", "zpid", "zws-Id">>

\* url.QueryEscape of one character: letters, digits and - _ . ~ stay, a
\* space becomes "+", every other byte becomes %XX (e-acute is two bytes).
EscapeChar(ch) ==
    CASE ch = " " -> <<"+">>
      [] ch = "&" -> <<"%", "2", "6">>
      [] ch = "=" -> <<"%", "3", "D">>
      [] ch = "+" -> <<"%", "2", "B">>
      [] ch = "," -> <<"%", "2", "C">>
      [] ch = "%" -> <<"%", "2", "5">>
      [] ch = "/" -> <<"%", "2", "F">>
      [] ch = "?" -> <<"%", "3", "F">>
      [] ch = "e'" -> <<"%", "C", "3", "%", "A", "9">>
      [] OTHER -> <<ch>>

\* A value put into the query as it is.
QueryEscapeNone(s) == s

QueryEscape(s) == Flatten([i \in 1..Len(s) |-> EscapeChar(s[i])])

EncodeKey(values, k) ==
    [i \in 1..Len(values[k]) |-> <<k, "=">> \o QueryEscape(values[k][i])]

RECURSIVE JoinAmp(_)
JoinAmp(parts) ==
    IF parts = <<>> THEN <<>>
    ELSE IF Len(parts) = 1 THEN parts[1]
    ELSE parts[1] \o <<"&">> \o JoinAmp(Tail(parts))

Encode(values) ==
    LET present == SelectSeq(SortedKeys, LAMBDA k : k \in DOMAIN values)
    IN  JoinAmp(Flatten([i \in 1..Len(present) |-> EncodeKey(values, present[i])]))

(***************************************************************************)
(* The URL zillow.get requests.                                            *)
(***************************************************************************)
RequestUrl(zc, path, values) ==
    zc.url \o <<"/", "Get">> \o <<path>> \o <<".htm", "?">> \o Encode(values)

(***************************************************************************)
(* The server's view of a request, as testFixtures reads it: r.URL.Path    *)
(* and r.URL.Query() (url.ParseQuery).                                     *)
(***************************************************************************)
IndexOf(s, tok) ==
    IF \E i \in 1..Len(s) : s[i] = tok
    THEN CHOOSE i \in 1..Len(s) : s[i] = tok /\ \A j \in 1..(i - 1) : s[j] # tok
    ELSE 0

RECURSIVE Split(_, _)
Split(s, tok) ==
    LET i == IndexOf(s, tok)
    IN  IF i = 0 THEN <<s>>
        ELSE <<SubSeq(s, 1, i - 1)>> \o Split(SubSeq(s, i + 1, Len(s)), tok)

RawQuery(u) ==
    LET i == IndexOf(u, "?") IN IF i = 0 THEN <<>> ELSE SubSeq(u, i + 1, Len(u))

\* Everything before the "?": scheme, host and path.
UrlBeforeQuery(u) ==
    LET i == IndexOf(u, "?") IN IF i = 0 THEN u ELSE SubSeq(u, 1, i - 1)

HexPairs ==
    [p \in {<<"2", "6">>, <<"3", "D">>, <<"2", "B">>, <<"2", "C">>, <<"2", "5">>,
            <<"2", "F">>, <<"3", "F">>} |->
        CASE p = <<"2", "6">> -> "&"
          [] p = <<"3", "D">> -> "="
          [] p = <<"2", "B">> -> "+"
          [] p = <<"2", "C">> -> ","
          [] p = <<"2", "5">> -> "%"
          [] p = <<"2", "F">> -> "/"
          [] p = <<"3", "F">> -> "?"]

\* url.QueryUnescape: "+" is a space, %XX is the byte XX.
RECURSIVE QueryUnescape(_)
QueryUnescape(s) ==
    IF s = <<>> THEN <<>>
    ELSE IF s[1] = "+" THEN <<" ">> \o QueryUnescape(Tail(s))
    ELSE IF s[1] = "%" /\ Len(s) >= 6 /\ SubSeq(s, 2, 6) = <<"C", "3", "%", "A", "9">>
         THEN <<"e'">> \o QueryUnescape(SubSeq(s, 7, Len(s)))
    ELSE IF s[1] = "%" /\ Len(s) >= 3 /\ SubSeq(s, 2, 3) \in DOMAIN HexPairs
         THEN <<HexPairs[SubSeq(s, 2, 3)]>> \o QueryUnescape(SubSeq(s, 4, Len(s)))
    ELSE <<s[1]>> \o QueryUnescape(Tail(s))

\* url.ParseQuery: the pairs <<key, value>> in the order received.
ParseQuery(q) ==
    LET parts == SelectSeq(Split(q, "&"), LAMBDA p : p # <<>>)
        pair(p) == LET i == IndexOf(p, "=")
                   IN  IF i = 0 THEN <<QueryUnescape(p), <<>>>>
                       ELSE <<QueryUnescape(SubSeq(p, 1, i - 1)),
                              QueryUnescape(SubSeq(p, i + 1, Len(p)))>>
    IN  [i \in 1..Len(parts) |-> pair(parts[i])]

\* url.Values[key] of the parsed query: the values received under key.
QueryValues(u, key) ==
    LET pairs == SelectSeq(ParseQuery(RawQuery(u)), LAMBDA p : p[1] = <<key>>)
    IN  [i \in 1..Len(pairs) |-> pairs[i][2]]

QueryKeys(u) == {p[1] : p \in Range(ParseQuery(RawQuery(u)))}

(***************************************************************************)
(* The result and request types: each struct with its XMLName tag and its  *)
(* fields' xml tags (parents > name, attr, chardata), in declaration       *)
(* order.                                                                  *)
(***************************************************************************)
Fld(field, parents, name, mode, kind, elem, slice) ==
    [field |-> field, parents |-> parents, name |-> name, mode |-> mode,
     kind |-> kind, elem |-> elem, slice |-> slice]

Struct(name, hasName, xmlname, fields) ==
    [name |-> name, hasName |-> hasName, xmlname |-> xmlname, fields |-> fields]

MessageMistagged ==
    Struct("Message", FALSE, "", <<
        Fld("Text", <<>>, "text", "elem", "string", Nil, FALSE),
        Fld("Code", <<>>, "Code", "elem", "int", Nil, FALSE),
        Fld("LimitWarning", <<>>, "limit-warning", "elem", "bool", Nil, FALSE)>>)

Message ==
    Struct("Message", FALSE, "", <<
        Fld("Text", <<>>, "text", "elem", "string", Nil, FALSE),
        Fld("Code", <<>>, "code", "elem", "int", Nil, FALSE),
        Fld("LimitWarning", <<>>, "limit-warning", "elem", "bool", Nil, FALSE)>>)

\* Address with the zip code under the name the requests use.
AddressZip ==
    Struct("Address", FALSE, "", <<
        Fld("Street", <<>>, "street", "elem", "string", Nil, FALSE),
        Fld("Zipcode", <<>>, "zip", "elem", "string", Nil, FALSE),
        Fld("City", <<>>, "city", "elem", "string", Nil, FALSE),
        Fld("State", <<>>, "state", "elem", "string", Nil, FALSE),
        Fld("Latitude", <<>>, "latitude", "elem", "string", Nil, FALSE),
        Fld("Longitude", <<>>, "longitude", "elem", "string", Nil, FALSE)>>)

Address ==
    Struct("Address", FALSE, "", <<
        Fld("Street", <<>>, "street", "elem", "string", Nil, FALSE),
        Fld("Zipcode", <<>>, "zipcode", "elem", "string", Nil, FALSE),
        Fld("City", <<>>, "city", "elem", "string", Nil, FALSE),
        Fld("State", <<>>, "state", "elem", "string", Nil, FALSE),
        Fld("Latitude", <<>>, "latitude", "elem", "string", Nil, FALSE),
        Fld("Longitude", <<>>, "longitude", "elem", "string", Nil, FALSE)>>)

Value ==
    Struct("Value", FALSE, "", <<
        Fld("Currency", <<>>, "currency", "attr", "string", Nil, FALSE),
        Fld("Value", <<>>, "", "chardata", "int", Nil, FALSE)>>)

ValueChange ==
    Struct("ValueChange", FALSE, "", <<
        Fld("Duration", <<>>, "duration", "attr", "int", Nil, FALSE),
        Fld("Currency", <<>>, "currency", "attr", "string", Nil, FALSE),
        Fld("Value", <<>>, "", "chardata", "int", Nil, FALSE)>>)

Zestimate ==
    Struct("Zestimate", FALSE, "", <<
        Fld("Amount", <<>>, "amount", "elem", "struct", Value, FALSE),
        Fld("LastUpdated", <<>>, "last-updated", "elem", "string", Nil, FALSE),
        Fld("ValueChange", <<>>, "valueChange", "elem", "struct", ValueChange, FALSE),
        Fld("Low", <<"valuationRange">>, "low", "elem", "struct", Value, FALSE),
        Fld("High", <<"valuationRange">>, "high", "elem", "struct", Value, FALSE),
        Fld("Percentile", <<>>, "percentile", "elem", "string", Nil, FALSE)>>)

ZestimateRequest ==
    Struct("ZestimateRequest", FALSE, "", <<
        Fld("Zpid", <<>>, "zpid", "elem", "string", Nil, FALSE),
        Fld("Rentzestimate", <<>>, "rentzestimate", "elem", "bool", Nil, FALSE)>>)

RealEstateRegion ==
    Struct("RealEstateRegion", TRUE, "region", <<
        Fld("ID", <<>>, "id", "attr", "string", Nil, FALSE),
        Fld("Type", <<>>, "type", "attr", "string", Nil, FALSE),
        Fld("Name", <<>>, "name", "attr", "string", Nil, FALSE),
        Fld("ZIndex", <<>>, "zindexValue", "elem", "string", Nil, FALSE),
        Fld("ZIndexOneYearChange", <<>>, "zindexOneYearChange", "elem", "float64", Nil, FALSE),
        Fld("Overview", <<"links">>, "overview", "elem", "string", Nil, FALSE),
        Fld("ForSaleByOwner", <<"links">>, "forSaleByOwner", "elem", "string", Nil, FALSE),
        Fld("ForSale", <<"links">>, "forSale", "elem", "string", Nil, FALSE)>>)

Links ==
    Struct("Links", TRUE, "links", <<
        Fld("HomeDetails", <<>>, "homedetails", "elem", "string", Nil, FALSE),
        Fld("GraphsAndData", <<>>, "graphsanddata", "elem", "string", Nil, FALSE),
        Fld("MapThisHome", <<>>, "mapthishome", "elem", "string", Nil, FALSE),
        Fld("MyZestimator", <<>>, "myzestimator", "elem", "string", Nil, FALSE),
        Fld("Comparables", <<>>, "comparables", "elem", "string", Nil, FALSE)>>)

ZestimateResult ==
    Struct("ZestimateResult", TRUE, "zestimate", <<
        Fld("Request", <<>>, "request", "elem", "struct", ZestimateRequest, FALSE),
        Fld("Message", <<>>, "message", "elem", "struct", Message, FALSE),
        Fld("Links", <<"response">>, "links", "elem", "struct", Links, FALSE),
        Fld("Address", <<"response">>, "address", "elem", "struct", Address, FALSE),
        Fld("Zestimate", <<"response">>, "zestimate", "elem", "struct", Zestimate, FALSE),
        Fld("LocalRealEstate", <<"response", "localRealEstate">>, "region", "elem", "struct", RealEstateRegion, TRUE),
        Fld("ZipcodeID", <<"response", "regions">>, "zipcode-id", "elem", "string", Nil, FALSE),
        Fld("CityID", <<"response", "regions">>, "city-id", "elem", "string", Nil, FALSE),
        Fld("CountyID", <<"response", "regions">>, "county-id", "elem", "string", Nil, FALSE),
        Fld("StateID", <<"response", "regions">>, "state-id", "elem", "string", Nil, FALSE)>>)

SearchRequest ==
    Struct("SearchRequest", FALSE, "", <<
        Fld("Address", <<>>, "address", "elem", "string", Nil, FALSE),
        Fld("CityStateZip", <<>>, "citystatezip", "elem", "string", Nil, FALSE),
        Fld("Rentzestimate", <<>>, "rentzestimate", "elem", "bool", Nil, FALSE)>>)

SearchResult ==
    Struct("SearchResult", TRUE, "result", <<
        Fld("Zpid", <<>>, "zpid", "elem", "string", Nil, FALSE),
        Fld("Links", <<>>, "links", "elem", "struct", Links, FALSE),
        Fld("Address", <<>>, "address", "elem", "struct", Address, FALSE),
        Fld("Zestimate", <<>>, "zestimate", "elem", "struct", Zestimate, FALSE),
        Fld("LocalRealEstate", <<"localRealEstate">>, "region", "elem", "struct", RealEstateRegion, TRUE)>>)

SearchResults ==
    Struct("SearchResults", TRUE, "searchresults", <<
        Fld("Request", <<>>, "request", "elem", "struct", SearchRequest, FALSE),
        Fld("Message", <<>>, "message", "elem", "struct", Message, FALSE),
        Fld("Results", <<"response", "results">>, "result", "elem", "struct", SearchResult, TRUE)>>)

ChartRequest ==
    Struct("ChartRequest", FALSE, "", <<
        Fld("Zpid", <<>>, "zpid", "elem", "string", Nil, FALSE),
        Fld("UnitType", <<>>, "unit-type", "elem", "string", Nil, FALSE),
        Fld("Width", <<>>, "width", "elem", "int", Nil, FALSE),
        Fld("Height", <<>>, "height", "elem", "int", Nil, FALSE),
        Fld("Duration", <<>>, "chartDuration", "elem", "string", Nil, FALSE)>>)

\* ChartResult without its XMLName field: any root element is accepted.
ChartResultAnyRoot ==
    Struct("ChartResult", FALSE, "", <<
        Fld("Request", <<>>, "request", "elem", "struct", ChartRequest, FALSE),
        Fld("Message", <<>>, "message", "elem", "struct", Message, FALSE),
        Fld("Url", <<"response">>, "url", "elem", "string", Nil, FALSE)>>)

ChartResult ==
    Struct("ChartResult", TRUE, "chart", <<
        Fld("Request", <<>>, "request", "elem", "struct", ChartRequest, FALSE),
        Fld("Message", <<>>, "message", "elem", "struct", Message, FALSE),
        Fld("Url", <<"response">>, "url", "elem", "string", Nil, FALSE)>>)

CompsRequest ==
    Struct("CompsRequest", FALSE, "", <<
        Fld("Zpid", <<>>, "zpid", "elem", "string", Nil, FALSE),
        Fld("Count", <<>>, "count", "elem", "int", Nil, FALSE),
        Fld("Rentzestimate", <<>>, "rentzestimate", "elem", "bool", Nil, FALSE)>>)

Principal ==
    Struct("Principal", FALSE, "", <<
        Fld("Zpid", <<>>, "zpid", "elem", "string", Nil, FALSE),
        Fld("Links", <<>>, "links", "elem", "struct", Links, FALSE),
        Fld("Address", <<>>, "address", "elem", "struct", Address, FALSE),
        Fld("Zestimate", <<>>, "zestimate", "elem", "struct", Zestimate, FALSE)>>)

Comp ==
    Struct("Comp", FALSE, "", <<
        Fld("Score", <<>>, "score", "attr", "float64", Nil, FALSE),
        Fld("Zpid", <<>>, "zpid", "elem", "string", Nil, FALSE),
        Fld("Links", <<>>, "links", "elem", "struct", Links, FALSE),
        Fld("Address", <<>>, "address", "elem", "struct", Address, FALSE),
        Fld("Zestimate", <<>>, "zestimate", "elem", "struct", Zestimate, FALSE)>>)

CompsResult ==
    Struct("CompsResult", TRUE, "comps", <<
        Fld("Request", <<>>, "request", "elem", "struct", CompsRequest, FALSE),
        Fld("Message", <<>>, "message", "elem", "struct", Message, FALSE),
        Fld("Principal", <<"response", "properties">>, "principal", "elem", "struct", Principal, FALSE),
        Fld("Comparables", <<"response", "properties", "comparables">>, "comp", "elem", "struct", Comp, TRUE)>>)

DeepPrincipal ==
    Struct("DeepPrincipal", FALSE, "", <<
        Fld("Zpid", <<>>, "zpid", "elem", "string", Nil, FALSE),
        Fld("Links", <<>>, "links", "elem", "struct", Links, FALSE),
        Fld("Address", <<>>, "address", "elem", "struct", Address, FALSE),
        Fld("TaxAssesmentYear", <<>>, "taxAssessmentYear", "elem", "int", Nil, FALSE),
        Fld("TaxAssesment", <<>>, "taxAssessment", "elem", "float64", Nil, FALSE),
        Fld("YearBuilt", <<>>, "yearBuilt", "elem", "int", Nil, FALSE),
        Fld("LotSizeSqFt", <<>>, "lotSizeSqFt", "elem", "int", Nil, FALSE),
        Fld("FinishedSqFt", <<>>, "finishedSqFt", "elem", "int", Nil, FALSE),
        Fld("Bathrooms", <<>>, "bathrooms", "elem", "float64", Nil, FALSE),
        Fld("Bedrooms", <<>>, "bedrooms", "elem", "int", Nil, FALSE),
        Fld("LastSoldDate", <<>>, "lastSoldDate", "elem", "string", Nil, FALSE),
        Fld("LastSoldPrice", <<>>, "lastSoldPrice", "elem", "struct", Value, FALSE),
        Fld("Zestimate", <<>>, "zestimate", "elem", "struct", Zestimate, FALSE),
        Fld("LocalRealEstate", <<"localRealEstate">>, "region", "elem", "struct", RealEstateRegion, TRUE)>>)

DeepComp ==
    Struct("DeepComp", FALSE, "", <<
        Fld("Score", <<>>, "score", "attr", "float64", Nil, FALSE),
        Fld("Zpid", <<>>, "zpid", "elem", "string", Nil, FALSE),
        Fld("Links", <<>>, "links", "elem", "struct", Links, FALSE),
        Fld("Address", <<>>, "address", "elem", "struct", Address, FALSE),
        Fld("TaxAssesmentYear", <<>>, "taxAssessmentYear", "elem", "int", Nil, FALSE),
        Fld("TaxAssesment", <<>>, "taxAssessment", "elem", "float64", Nil, FALSE),
        Fld("YearBuilt", <<>>, "yearBuilt", "elem", "int", Nil, FALSE),
        Fld("LotSizeSqFt", <<>>, "lotSizeSqFt", "elem", "int", Nil, FALSE),
        Fld("FinishedSqFt", <<>>, "finishedSqFt", "elem", "int", Nil, FALSE),
        Fld("Bathrooms", <<>>, "bathrooms", "elem", "float64", Nil, FALSE),
        Fld("Bedrooms", <<>>, "bedrooms", "elem", "int", Nil, FALSE),
        Fld("LastSoldDate", <<>>, "lastSoldDate", "elem", "string", Nil, FALSE),
        Fld("LastSoldPrice", <<>>, "lastSoldPrice", "elem", "struct", Value, FALSE),
        Fld("Zestimate", <<>>, "zestimate", "elem", "struct", Zestimate, FALSE)>>)

DeepCompsResult ==
    Struct("DeepCompsResult", TRUE, "comps", <<
        Fld("Request", <<>>, "request", "elem", "struct", CompsRequest, FALSE),
        Fld("Message", <<>>, "message", "elem", "struct", Message, FALSE),
        Fld("Principal", <<"response", "properties">>, "principal", "elem", "struct", DeepPrincipal, FALSE),
        Fld("Comparables", <<"response", "properties", "comparables">>, "comp", "elem", "struct", DeepComp, TRUE)>>)

DeepSearchResult ==
    Struct("DeepSearchResult", TRUE, "result", <<
        Fld("Zpid", <<>>, "zpid", "elem", "string", Nil, FALSE),
        Fld("Links", <<>>, "links", "elem", "struct", Links, FALSE),
        Fld("Address", <<>>, "address", "elem", "struct", Address, FALSE),
        Fld("FIPSCounty", <<>>, "FIPScounty", "elem", "string", Nil, FALSE),
        Fld("UseCode", <<>>, "useCode", "elem", "string", Nil, FALSE),
        Fld("TaxAssessmentYear", <<>>, "taxAssessmentYear", "elem", "int", Nil, FALSE),
        Fld("TaxAssessment", <<>>, "taxAssessment", "elem", "float64", Nil, FALSE),
        Fld("YearBuilt", <<>>, "yearBuilt", "elem", "int", Nil, FALSE),
        Fld("LotSizeSqFt", <<>>, "lotSizeSqFt", "elem", "int", Nil, FALSE),
        Fld("FinishedSqFt", <<>>, "finishedSqFt", "elem", "int", Nil, FALSE),
        Fld("Bathrooms", <<>>, "bathrooms", "elem", "float64", Nil, FALSE),
        Fld("Bedrooms", <<>>, "bedrooms", "elem", "int", Nil, FALSE),
        Fld("LastSoldDate", <<>>, "lastSoldDate", "elem", "string", Nil, FALSE),
        Fld("LastSoldPrice", <<>>, "lastSoldPrice", "elem", "struct", Value, FALSE),
        Fld("Zestimate", <<>>, "zestimate", "elem", "struct", Zestimate, FALSE),
        Fld("LocalRealEstate", <<"localRealEstate">>, "region", "elem", "struct", RealEstateRegion, TRUE)>>)

DeepSearchResults ==
    Struct("DeepSearchResults", TRUE, "searchresults", <<
        Fld("Request", <<>>, "request", "elem", "struct", SearchRequest, FALSE),
        Fld("Message", <<>>, "message", "elem", "struct", Message, FALSE),
        Fld("Results", <<"response", "results">>, "result", "elem", "struct", DeepSearchResult, TRUE)>>)

RegionChartRequest ==
    Struct("RegionChartRequest", FALSE, "", <<
        Fld("City", <<>>, "city", "elem", "string", Nil, FALSE),
        Fld("State", <<>>, "state", "elem", "string", Nil, FALSE),
        Fld("Neighborhood", <<>>, "neighborhood", "elem", "string", Nil, FALSE),
        Fld("Zipcode", <<>>, "zip", "elem", "string", Nil, FALSE),
        Fld("UnitType", <<>>, "unit-type", "elem", "string", Nil, FALSE),
        Fld("Width", <<>>, "width", "elem", "int", Nil, FALSE),
        Fld("Height", <<>>, "height", "elem", "int", Nil, FALSE),
        Fld("ChartDuration", <<>>, "chartDuration", "elem", "string", Nil, FALSE)>>)

RegionChartResult ==
    Struct("RegionChartResult", TRUE, "regionchart", <<
        Fld("Request", <<>>, "request", "elem", "struct", RegionChartRequest, FALSE),
        Fld("Message", <<>>, "message", "elem", "struct", Message, FALSE),
        Fld("Url", <<"response">>, "url", "elem", "string", Nil, FALSE),
        Fld("Zindex", <<"response">>, "zindex", "elem", "struct", Value, FALSE)>>)

UpdatedPropertyDetailsRequest ==
    Struct("UpdatedPropertyDetailsRequest", FALSE, "", <<
        Fld("Zpid", <<>>, "zpid", "elem", "string", Nil, FALSE)>>)

Posting ==
    Struct("Posting", FALSE, "", <<
        Fld("Status", <<>>, "status", "elem", "string", Nil, FALSE),
        Fld("AgentName", <<>>, "agentName", "elem", "string", Nil, FALSE),
        Fld("AgentProfileUrl", <<>>, "agentProfileUrl", "elem", "string", Nil, FALSE),
        Fld("Brokerage", <<>>, "brokerage", "elem", "string", Nil, FALSE),
        Fld("Type", <<>>, "type", "elem", "string", Nil, FALSE),
        Fld("LastUpdatedDate", <<>>, "lastUpdatedDate", "elem", "string", Nil, FALSE),
        Fld("ExternalUrl", <<>>, "externalUrl", "elem", "string", Nil, FALSE),
        Fld("MLS", <<>>, "mls", "elem", "string", Nil, FALSE)>>)

Images ==
    Struct("Images", FALSE, "", <<
        Fld("Count", <<>>, "count", "elem", "int", Nil, FALSE),
        Fld("Urls", <<"image">>, "url", "elem", "string", Nil, TRUE)>>)

EditedFacts ==
    Struct("EditedFacts", FALSE, "", <<
        Fld("UseCode", <<>>, "useCode", "elem", "string", Nil, FALSE),
        Fld("Bedrooms", <<>>, "bedrooms", "elem", "int", Nil, FALSE),
        Fld("Bathrooms", <<>>, "bathrooms", "elem", "float64", Nil, FALSE),
        Fld("FinishedSqFt", <<>>, "finishedSqFt", "elem", "int", Nil, FALSE),
        Fld("LotSizeSqFt", <<>>, "lotSizeSqFt", "elem", "int", Nil, FALSE),
        Fld("YearBuilt", <<>>, "yearBuilt", "elem", "int", Nil, FALSE),
        Fld("YearUpdated", <<>>, "yearUpdated", "elem", "int", Nil, FALSE),
        Fld("NumFloors", <<>>, "numFloors", "elem", "int", Nil, FALSE),
        Fld("Basement", <<>>, "basement", "elem", "string", Nil, FALSE),
        Fld("Roof", <<>>, "roof", "elem", "string", Nil, FALSE),
        Fld("View", <<>>, "view", "elem", "string", Nil, FALSE),
        Fld("ParkingType", <<>>, "parkingType", "elem", "string", Nil, FALSE),
        Fld("HeatingSources", <<>>, "heatingSources", "elem", "string", Nil, FALSE),
        Fld("HeatingSystem", <<>>, "heatingSystem", "elem", "string", Nil, FALSE),
        Fld("Appliances", <<>>, "appliances", "elem", "string", Nil, FALSE),
        Fld("FloorCovering", <<>>, "floorCovering", "elem", "string", Nil, FALSE),
        Fld("Rooms", <<>>, "rooms", "elem", "string", Nil, FALSE)>>)

UpdatedPropertyDetails ==
    Struct("UpdatedPropertyDetails", TRUE, "updatedPropertyDetails", <<
        Fld("Request", <<>>, "request", "elem", "struct", UpdatedPropertyDetailsRequest, FALSE),
        Fld("Message", <<>>, "message", "elem", "struct", Message, FALSE),
        Fld("PageViewCountMonth", <<"response", "pageViewCount">>, "currentMonth", "elem", "int", Nil, FALSE),
        Fld("PageViewCountTotal", <<"response", "pageViewCount">>, "total", "elem", "int", Nil, FALSE),
        Fld("Address", <<"response">>, "address", "elem", "struct", Address, FALSE),
        Fld("Posting", <<"response">>, "posting", "elem", "struct", Posting, FALSE),
        Fld("Price", <<"response">>, "price", "elem", "struct", Value, FALSE),
        Fld("HomeDetailsLink", <<"response", "links">>, "homeDetails", "elem", "string", Nil, FALSE),
        Fld("PhotoGalleryLink", <<"response", "links">>, "photoGallery", "elem", "string", Nil, FALSE),
        Fld("HomeInfoLink", <<"response", "links">>, "homeInfo", "elem", "string", Nil, FALSE),
        Fld("Images", <<"response">>, "images", "elem", "struct", Images, FALSE),
        Fld("EditedFacts", <<"response">>, "editedFacts", "elem", "struct", EditedFacts, FALSE),
        Fld("HomeDescriptions", <<>>, "homeDesription", "elem", "string", Nil, FALSE),
        Fld("Neighborhood", <<>>, "neighborhood", "elem", "string", Nil, FALSE),
        Fld("SchoolDistrict", <<>>, "schoolDistrict", "elem", "string", Nil, FALSE),
        Fld("ElementarySchool", <<>>, "elementarySchool", "elem", "string", Nil, FALSE),
        Fld("MiddleSchool", <<>>, "middleSchool", "elem", "string", Nil, FALSE)>>)

RegionChildrenRequest ==
    Struct("RegionChildrenRequest", FALSE, "", <<
        Fld("RegionId", <<>>, "regionId", "elem", "string", Nil, FALSE),
        Fld("State", <<>>, "state", "elem", "string", Nil, FALSE),
        Fld("Country", <<>>, "country", "elem", "string", Nil, FALSE),
        Fld("City", <<>>, "city", "elem", "string", Nil, FALSE),
        Fld("ChildType", <<>>, "childtype", "elem", "string", Nil, FALSE)>>)

Region ==
    Struct("Region", FALSE, "", <<
        Fld("Id", <<>>, "id", "elem", "string", Nil, FALSE),
        Fld("Name", <<>>, "name", "elem", "string", Nil, FALSE),
        Fld("Country", <<>>, "country", "elem", "string", Nil, FALSE),
        Fld("State", <<>>, "state", "elem", "string", Nil, FALSE),
        Fld("County", <<>>, "county", "elem", "string", Nil, FALSE),
        Fld("City", <<>>, "city", "elem", "string", Nil, FALSE),
        Fld("CityUrl", <<>>, "cityurl", "elem", "string", Nil, FALSE),
        Fld("Latitude", <<>>, "latitude", "elem", "string", Nil, FALSE),
        Fld("Longitude", <<>>, "longitude", "elem", "string", Nil, FALSE),
        Fld("ZIndex", <<>>, "zindex", "elem", "struct", Value, FALSE),
        Fld("Url", <<>>, "url", "elem", "string", Nil, FALSE)>>)

RegionChildren ==
    Struct("RegionChildren", TRUE, "regionchildren", <<
        Fld("Request", <<>>, "request", "elem", "struct", RegionChildrenRequest, FALSE),
        Fld("Message", <<>>, "message", "elem", "struct", Message, FALSE),
        Fld("Region", <<"response">>, "region", "elem", "struct", Region, FALSE),
        Fld("SubRegionType", <<"response">>, "subregiontype", "elem", "string", Nil, FALSE),
        Fld("Regions", <<"response", "list">>, "region", "elem", "struct", Region, TRUE)>>)

RateSummaryRequest ==
    Struct("RateSummaryRequest", FALSE, "", <<
        Fld("State", <<>>, "state", "elem", "string", Nil, FALSE)>>)

Rate ==
    Struct("Rate", FALSE, "", <<
        Fld("LoanType", <<>>, "loanType", "attr", "string", Nil, FALSE),
        Fld("Count", <<>>, "count", "attr", "int", Nil, FALSE),
        Fld("Value", <<>>, "", "chardata", "float64", Nil, FALSE)>>)

RateSummary ==
    Struct("RateSummary", TRUE, "rateSummary", <<
        Fld("Request", <<>>, "request", "elem", "struct", RateSummaryRequest, FALSE),
        Fld("Message", <<>>, "message", "elem", "struct", Message, FALSE),
        Fld("Today", <<"response", "today">>, "rate", "elem", "struct", Rate, TRUE),
        Fld("LastWeek", <<"response", "lastWeek">>, "rate", "elem", "struct", Rate, TRUE)>>)

MonthlyPaymentsRequest ==
    Struct("MonthlyPaymentsRequest", FALSE, "", <<
        Fld("Price", <<>>, "price", "elem", "int", Nil, FALSE),
        Fld("Down", <<>>, "down", "elem", "int", Nil, FALSE),
        Fld("DollarsDown", <<>>, "dollarsdown", "elem", "int", Nil, FALSE),
        Fld("Zip", <<>>, "zip", "elem", "string", Nil, FALSE)>>)

Payment ==
    Struct("Payment", FALSE, "", <<
        Fld("LoanType", <<>>, "loanType", "attr", "string", Nil, FALSE),
        Fld("Rate", <<>>, "rate", "elem", "float64", Nil, FALSE),
        Fld("MonthlyPrincipalAndInterest", <<>>, "monthlyPrincipalAndInterest", "elem", "int", Nil, FALSE),
        Fld("MonthlyMortgageInsurance", <<>>, "monthlyMortgageInsurance", "elem", "int", Nil, FALSE)>>)

MonthlyPayments ==
    Struct("MonthlyPayments", TRUE, "paymentsSummary", <<
        Fld("Request", <<>>, "request", "elem", "struct", MonthlyPaymentsRequest, FALSE),
        Fld("Message", <<>>, "message", "elem", "struct", Message, FALSE),
        Fld("Payments", <<"response">>, "payment", "elem", "struct", Payment, TRUE),
        Fld("DownPayment", <<"response">>, "downPayment", "elem", "int", Nil, FALSE),
        Fld("MonthlyPropertyTaxes", <<"response">>, "monthlyPropertyTaxes", "elem", "int", Nil, FALSE),
        Fld("MonthlyHazardInsurance", <<"response">>, "monthlyHazardInsurance", "elem", "int", Nil, FALSE)>>)

(***************************************************************************)
(* Values.  A struct value is a function from its field names; a slice is  *)
(* a sequence; an xml.Name is [Space, Local]; a float64 is the decimal     *)
(* [neg, num, scale] (num / 10^scale) without trailing zeros.              *)
(***************************************************************************)
ZeroFloat == [neg |-> FALSE, num |-> 0, scale |-> 0]

ZeroName == [Space |-> "", Local |-> ""]

\* Numbers that start as -1, "not set", instead of 0.
ZeroScalarUnset(kind) ==
    CASE kind = "string" -> <<>>
      [] kind = "int" -> -1
      [] kind = "bool" -> FALSE
      [] kind = "float64" -> [neg |-> TRUE, num |-> 1, scale |-> 0]

ZeroScalar(kind) ==
    CASE kind = "string" -> <<>>
      [] kind = "int" -> 0
      [] kind = "bool" -> FALSE
      [] kind = "float64" -> ZeroFloat

FieldIndex(t, n) == CHOOSE i \in 1..Len(t.fields) : t.fields[i].field = n

FieldNames(t) ==
    {t.fields[i].field : i \in 1..Len(t.fields)} \cup (IF t.hasName THEN {"XMLName"} ELSE {})

RECURSIVE ZeroStruct(_)
ZeroStruct(t) ==
    [n \in FieldNames(t) |->
        IF n = "XMLName" THEN ZeroName
        ELSE LET f == t.fields[FieldIndex(t, n)]
             IN  IF f.slice THEN <<>>
                 ELSE IF f.kind = "struct" THEN ZeroStruct(f.elem)
                 ELSE ZeroScalar(f.kind)]

(***************************************************************************)
(* encoding/xml's copyValue: character data into a scalar field.           *)
(***************************************************************************)
IsSpace(ch) == ch \in {" ", "\n", "\t"}

RECURSIVE TrimLeft(_)
TrimLeft(s) == IF s # <<>> /\ IsSpace(s[1]) THEN TrimLeft(Tail(s)) ELSE s

RECURSIVE TrimRight(_)
TrimRight(s) ==
    IF s # <<>> /\ IsSpace(s[Len(s)]) THEN TrimRight(SubSeq(s, 1, Len(s) - 1)) ELSE s

TrimSpace(s) == TrimRight(TrimLeft(s))

RECURSIVE DigitsValue(_)
DigitsValue(s) ==
    IF s = <<>> THEN 0
    ELSE 10 * DigitsValue(SubSeq(s, 1, Len(s) - 1)) + DigitVal(s[Len(s)])

AllDigits(s) == \A i \in 1..Len(s) : IsDigit(s[i])

Unsigned(s) == IF s # <<>> /\ s[1] \in {"-", "+"} THEN Tail(s) ELSE s

\* strconv.ParseInt(s, 10, 64)
ParseInt(s) ==
    LET u == Unsigned(s)
    IN  IF u = <<>> \/ ~AllDigits(u) THEN [ok |-> FALSE, v |-> 0]
        ELSE [ok |-> TRUE,
              v |-> IF s[1] = "-" THEN 0 - DigitsValue(u) ELSE DigitsValue(u)]

\* strconv.ParseBool
ParseBool(s) ==
    IF s \in {<<"1">>, <<"t">>, <<"T">>, <<"t", "r", "u", "e">>,
              <<"T", "R", "U", "E">>, <<"T", "r", "u", "e">>}
    THEN [ok |-> TRUE, v |-> TRUE]
    ELSE IF s \in {<<"0">>, <<"f">>, <<"F">>, <<"f", "a", "l", "s", "e">>,
                   <<"F", "A", "L", "S", "E">>, <<"F", "a", "l", "s", "e">>}
    THEN [ok |-> TRUE, v |-> FALSE]
    ELSE [ok |-> FALSE, v |-> FALSE]

RECURSIVE StripZeros(_)
StripZeros(fl) ==
    IF fl.scale > 0 /\ fl.num % 10 = 0
    THEN StripZeros([fl EXCEPT !.num = fl.num \div 10, !.scale = fl.scale - 1])
    ELSE fl

\* strconv.ParseFloat(s, 64) on plain decimals: sign, digits, one optional ".".
ParseFloat(s) ==
    LET u == Unsigned(s)
        dot == IndexOf(u, ".")
        ip == IF dot = 0 THEN u ELSE SubSeq(u, 1, dot - 1)
        fp == IF dot = 0 THEN <<>> ELSE SubSeq(u, dot + 1, Len(u))
    IN  IF (ip = <<>> /\ fp = <<>>) \/ ~AllDigits(ip) \/ ~AllDigits(fp)
        THEN [ok |-> FALSE, v |-> ZeroFloat]
        ELSE LET fl == StripZeros([neg |-> FALSE, num |-> DigitsValue(ip \o fp),
                                   scale |-> Len(fp)])
             IN  [ok |-> TRUE,
                  v |-> [fl EXCEPT !.neg = (s[1] = "-" /\ fl.num # 0)]]

\* Text that does not parse taken as zero.
copyValueLenient(kind, src) ==
    CASE kind = "string" -> [ok |-> TRUE, v |-> src]
      [] kind = "int" ->
            IF src = <<>> THEN [ok |-> TRUE, v |-> 0]
            ELSE [ok |-> TRUE, v |-> ParseInt(TrimSpace(src)).v]
      [] kind = "bool" ->
            IF src = <<>> THEN [ok |-> TRUE, v |-> FALSE]
            ELSE [ok |-> TRUE, v |-> ParseBool(TrimSpace(src)).v]
      [] kind = "float64" ->
            IF src = <<>> THEN [ok |-> TRUE, v |-> ZeroFloat]
            ELSE [ok |-> TRUE, v |-> ParseFloat(TrimSpace(src)).v]

copyValue(kind, src) ==
    CASE kind = "string" -> [ok |-> TRUE, v |-> src]
      [] kind = "int" ->
            IF src = <<>> THEN [ok |-> TRUE, v |-> 0] ELSE ParseInt(TrimSpace(src))
      [] kind = "bool" ->
            IF src = <<>> THEN [ok |-> TRUE, v |-> FALSE] ELSE ParseBool(TrimSpace(src))
      [] kind = "float64" ->
            IF src = <<>> THEN [ok |-> TRUE, v |-> ZeroFloat]
            ELSE ParseFloat(TrimSpace(src))

(***************************************************************************)
(* A response body is the sequence of XML tokens its bytes hold.  A body   *)
(* cut short is a prefix of the sequence; bytes that are no XML token at   *)
(* all are the token Bad.                                                  *)
(***************************************************************************)
StartNS(name, space, attr) ==
    [k |-> "start", name |-> name, space |-> space, attr |-> attr, s |-> <<>>]

Start(name) == StartNS(name, "", <<>>)

End(name) == [k |-> "end", name |-> name, space |-> "", attr |-> <<>>, s |-> <<>>]

Text(s) == [k |-> "text", name |-> "", space |-> "", attr |-> <<>>, s |-> s]

Bad == [k |-> "bad", name |-> "", space |-> "", attr |-> <<>>, s |-> <<>>]

Attr(name, value) == [name |-> name, value |-> value]

\* <name>text</name>
Elem(name, s) == <<Start(name), Text(s), End(name)>>

\* <name> children </name>
Wrap(name, children) == <<Start(name)>> \o children \o <<End(name)>>

(***************************************************************************)
(* xml.Decoder.  The decoder state d is [pos, stack, err]: the next token  *)
(* to read, the names of the open elements, and the error met (Nil while   *)
(* there is none).  Token checks nesting as it reads: an end tag that does *)
(* not close the open element and an end of input inside an element are    *)
(* syntax errors; an end of input outside any element is io.EOF.           *)
(***************************************************************************)
DecodeError(msg) == [kind |-> "decode", msg |-> msg]

NewDecoder == [pos |-> 1, stack |-> <<>>, err |-> Nil]

Fail(d, msg) == [d EXCEPT !.err = Ptr(DecodeError(msg))]

Token(toks, d) ==
    IF d.pos > Len(toks)
    THEN [tok |-> Bad,
          d |-> Fail(d, IF d.stack = <<>> THEN "EOF" ELSE "XML syntax error: unexpected EOF")]
    ELSE LET t == toks[d.pos]
         IN  CASE t.k = "bad" ->
                    [tok |-> t, d |-> Fail(d, "XML syntax error")]
               [] t.k = "start" ->
                    [tok |-> t,
                     d |-> [d EXCEPT !.pos = d.pos + 1, !.stack = Append(d.stack, t.name)]]
               [] t.k = "end" ->
                    IF d.stack = <<>> \/ d.stack[Len(d.stack)] # t.name
                    THEN [tok |-> t, d |-> Fail(d, "XML syntax error: unexpected end element")]
                    ELSE [tok |-> t,
                          d |-> [d EXCEPT !.pos = d.pos + 1,
                                          !.stack = SubSeq(d.stack, 1, Len(d.stack) - 1)]]
               [] t.k = "text" ->
                    [tok |-> t, d |-> [d EXCEPT !.pos = d.pos + 1]]

\* The first field, in declaration order, that the element `start` under the
\* path `parents` matches exactly or is a path prefix of; 0 when there is none.
PathPrefix(f, parents) ==
    /\ f.mode = "elem"
    /\ Len(f.parents) >= Len(parents)
    /\ \A j \in 1..Len(parents) : parents[j] = f.parents[j]

PerfectMatch(f, parents, start) ==
    PathPrefix(f, parents) /\ Len(f.parents) = Len(parents) /\ f.name = start.name

PrefixMatch(f, parents, start) ==
    /\ PathPrefix(f, parents)
    /\ Len(f.parents) > Len(parents)
    /\ f.parents[Len(parents) + 1] = start.name

MatchField(t, parents, start) ==
    LET hits == {i \in 1..Len(t.fields) :
                    \/ PerfectMatch(t.fields[i], parents, start)
                    \/ PrefixMatch(t.fields[i], parents, start)}
    IN  IF hits = {} THEN 0 ELSE CHOOSE i \in hits : \A j \in hits : i <= j

\* The attributes of the start tag, copied into the attr fields.
RECURSIVE AssignAttrs(_, _, _)
AssignAttrs(t, sv, attrs) ==
    IF attrs = <<>> THEN [ok |-> TRUE, v |-> sv]
    ELSE LET a == Head(attrs)
             hits == {i \in 1..Len(t.fields) :
                         t.fields[i].mode = "attr" /\ t.fields[i].name = a.name}
             f == t.fields[CHOOSE i \in hits : TRUE]
             c == copyValue(f.kind, a.value)
             next == IF hits = {} THEN sv ELSE [sv EXCEPT ![f.field] = c.v]
         IN  IF hits # {} /\ ~c.ok THEN [ok |-> FALSE, v |-> sv]
             ELSE AssignAttrs(t, next, Tail(attrs))

HasCharData(t) == \E i \in 1..Len(t.fields) : t.fields[i].mode = "chardata"

CharDataField(t) == t.fields[CHOOSE i \in 1..Len(t.fields) : t.fields[i].mode = "chardata"]

(***************************************************************************)
(* Decoder.unmarshal, unmarshalPath and Skip.  Their recursion is kept as  *)
(* the sequence of frames of the calls in progress, innermost last:        *)
(*   "struct"  unmarshal of a struct of type t, its value v so far, the    *)
(*             character data read so far, the field f of the enclosing    *)
(*             struct it is the value of                                   *)
(*   "scalar"  unmarshal of a string, int, bool or float64 field f         *)
(*   "path"    unmarshalPath below the elements `parents` of a tag path    *)
(*   "skip"    Skip of an element no field matches                         *)
(* Step reads one token and does what the innermost call does with it.     *)
(***************************************************************************)
NoField == Fld("", <<>>, "", "elem", "struct", Nil, FALSE)

Frame(kind, t, v, f, parents) ==
    [kind |-> kind, t |-> t, v |-> v, data |-> <<>>, f |-> f, parents |-> parents]

\* The innermost struct being filled in: path frames work on its value.
StructFrame(frames) ==
    CHOOSE i \in 1..Len(frames) :
        /\ frames[i].kind = "struct"
        /\ \A j \in (i + 1)..Len(frames) : frames[j].kind # "struct"

\* A slice grown at its front.
SetFieldFront(sv, f, v) ==
    IF f.slice THEN [sv EXCEPT ![f.field] = <<v>> \o @] ELSE [sv EXCEPT ![f.field] = v]

\* The value v of field f stored into the struct value sv: appended to a
\* slice, assigned otherwise.
SetField(sv, f, v) ==
    IF f.slice THEN [sv EXCEPT ![f.field] = Append(@, v)] ELSE [sv EXCEPT ![f.field] = v]

\* The innermost frame returns v: it is popped and v stored in the field it
\* was unmarshalled for (the root has no enclosing struct).
PopStore(frames, v) ==
    LET top == frames[Len(frames)]
        rest == SubSeq(frames, 1, Len(frames) - 1)
    IN  IF Len(rest) = 0 THEN <<[top EXCEPT !.v = v, !.kind = "returned"]>>
        ELSE LET i == StructFrame(rest)
             IN  [rest EXCEPT ![i].v = SetField(@, top.f, v)]

\* unmarshal of a struct of type t for field f from the element `start`,
\* already read: the XMLName is checked and recorded and the attributes are
\* taken.  cur is the value unmarshalled into.
Attributed(f, t, a) ==
    IF ~a.ok THEN [err |-> "strconv: invalid syntax", frame |-> Frame("struct", t, a.v, f, <<>>)]
    ELSE [err |-> "", frame |-> Frame("struct", t, a.v, f, <<>>)]

\* The XMLName recorded with the local name alone.
BeginStructLocalOnly(f, t, start, cur) ==
    IF t.hasName /\ t.xmlname # "" /\ t.xmlname # start.name
    THEN [err |-> "expected element type <" \o t.xmlname \o "> but have <"
                     \o start.name \o ">",
          frame |-> Frame("struct", t, cur, f, <<>>)]
    ELSE Attributed(f, t,
             AssignAttrs(t,
                         IF t.hasName
                         THEN [cur EXCEPT !["XMLName"] =
                                  [Space |-> "", Local |-> start.name]]
                         ELSE cur,
                         start.attr))

BeginStruct(f, t, start, cur) ==
    IF t.hasName /\ t.xmlname # "" /\ t.xmlname # start.name
    THEN [err |-> "expected element type <" \o t.xmlname \o "> but have <"
                     \o start.name \o ">",
          frame |-> Frame("struct", t, cur, f, <<>>)]
    ELSE Attributed(f, t,
             AssignAttrs(t,
                         IF t.hasName
                         THEN [cur EXCEPT !["XMLName"] =
                                  [Space |-> start.space, Local |-> start.name]]
                         ELSE cur,
                         start.attr))

\* unmarshal of the value of field f of the struct value sv: a slice grows
\* by one (zero) element, a struct field is unmarshalled into as it is, a
\* scalar takes the text.
BeginValue(f, sv, start) ==
    IF f.kind # "struct"
    THEN [err |-> "", frame |-> Frame("scalar", Nil, ZeroScalar(f.kind), f, <<>>)]
    ELSE BeginStruct(f, f.elem, start,
                     IF f.slice \/ f.field = "" THEN ZeroStruct(f.elem) ELSE sv[f.field])

\* unmarshalPath for the element `start` read under `parents` in the struct
\* frame s: the frame of the call that takes the element over.
\* Fields matched in the order they are declared in: an element is skipped
\* once a field declared after its own holds a value.
EnterAtInOrder(s, parents, start, i) ==
    IF i = 0 THEN [err |-> "", frame |-> Frame("skip", Nil, Nil, NoField, <<>>)]
    ELSE IF \E j \in (i + 1)..Len(s.t.fields) :
                s.v[s.t.fields[j].field] # ZeroStruct(s.t)[s.t.fields[j].field]
    THEN [err |-> "", frame |-> Frame("skip", Nil, Nil, NoField, <<>>)]
    ELSE IF PerfectMatch(s.t.fields[i], parents, start)
    THEN BeginValue(s.t.fields[i], s.v, start)
    ELSE [err |-> "", frame |-> Frame("path", Nil, Nil, NoField, Append(parents, start.name))]

EnterAt(s, parents, start, i) ==
    IF i = 0 THEN [err |-> "", frame |-> Frame("skip", Nil, Nil, NoField, <<>>)]
    ELSE IF PerfectMatch(s.t.fields[i], parents, start)
    THEN BeginValue(s.t.fields[i], s.v, start)
    ELSE [err |-> "", frame |-> Frame("path", Nil, Nil, NoField, Append(parents, start.name))]

EnterIn(s, parents, start) == EnterAt(s, parents, start, MatchField(s.t, parents, start))

EnterElement(frames, parents, start) == EnterIn(frames[StructFrame(frames)], parents, start)

\* The end tag of the innermost frame's element: the character data is
\* converted (c) and the value returned to the enclosing call.
Leave(frames, top, c) ==
    IF top.kind \in {"skip", "path"}
    THEN [err |-> "", frames |-> SubSeq(frames, 1, Len(frames) - 1)]
    ELSE IF ~c.ok THEN [err |-> "strconv: invalid syntax", frames |-> frames]
    ELSE IF top.kind = "scalar" THEN [err |-> "", frames |-> PopStore(frames, c.v)]
    ELSE IF HasCharData(top.t)
    THEN [err |-> "",
          frames |-> PopStore(frames, [top.v EXCEPT ![CharDataField(top.t).field] = c.v])]
    ELSE [err |-> "", frames |-> PopStore(frames, top.v)]

SavedKind(top) ==
    IF top.kind = "scalar" THEN top.f.kind
    ELSE IF top.kind = "struct" /\ HasCharData(top.t) THEN CharDataField(top.t).kind
    ELSE "string"

LeaveFrame(frames, top) == Leave(frames, top, copyValue(SavedKind(top), top.data))

LeaveElement(frames) == LeaveFrame(frames, frames[Len(frames)])

\* One token read by the innermost call.  m is [d, frames].
Entered(m, d, e) ==
    [d |-> IF e.err = "" THEN d ELSE Fail(d, e.err), frames |-> Append(m.frames, e.frame)]

Left(d, l) == [d |-> IF l.err = "" THEN d ELSE Fail(d, l.err), frames |-> l.frames]

StepToken(m, top, r) ==
    IF r.d.err # Nil THEN [d |-> r.d, frames |-> m.frames]
    ELSE CASE r.tok.k = "start" ->
                Entered(m, r.d,
                        IF top.kind \in {"skip", "scalar"}
                        THEN [err |-> "", frame |-> Frame("skip", Nil, Nil, NoField, <<>>)]
                        ELSE EnterElement(m.frames, top.parents, r.tok))
           [] r.tok.k = "end" -> Left(r.d, LeaveElement(m.frames))
           [] r.tok.k = "text" ->
                [d |-> r.d,
                 frames |-> IF \/ top.kind = "scalar"
                               \/ top.kind = "struct" /\ HasCharData(top.t)
                            THEN [m.frames EXCEPT ![Len(m.frames)].data = @ \o r.tok.s]
                            ELSE m.frames]

Step(toks, m) == StepToken(m, m.frames[Len(m.frames)], Token(toks, m.d))

RECURSIVE Run(_, _)
Run(toks, m) ==
    IF m.d.err # Nil \/ m.frames[1].kind = "returned" THEN m ELSE Run(toks, Step(toks, m))

\* What an error leaves behind: every struct being filled in stays as far as
\* it got, inside the struct that holds it; an element being appended to a
\* slice is dropped, a scalar not yet converted is not stored.
RECURSIVE Unwind(_)
Unwind(frames) ==
    LET top == frames[Len(frames)]
        rest == SubSeq(frames, 1, Len(frames) - 1)
    IN  IF Len(frames) = 1 THEN top.v
        ELSE IF top.kind = "struct" /\ ~top.f.slice /\ top.f.field # ""
        THEN Unwind([rest EXCEPT ![StructFrame(rest)].v = SetField(@, top.f, top.v)])
        ELSE Unwind(rest)

\* Decoder.unmarshal with no start element yet: read up to the first one.
RECURSIVE FindStart(_, _)
FindStart(toks, d) ==
    LET r == Token(toks, d)
    IN  IF r.d.err # Nil \/ r.tok.k = "start" THEN r ELSE FindStart(toks, r.d)

\* xml.NewDecoder(body).Decode(&result) with result the zero value of type t:
\* [v, err, read], read being the number of tokens of the body consumed.
Decoded(m) == [v |-> Unwind(m.frames), err |-> m.d.err, read |-> m.d.pos - 1]

DecodeRoot(body, s, root) ==
    IF root.err # ""
    THEN [v |-> root.frame.v, err |-> Ptr(DecodeError(root.err)), read |-> s.d.pos - 1]
    ELSE Decoded(Run(body, [d |-> s.d, frames |-> <<root.frame>>]))

DecodeFrom(t, body, s) ==
    IF s.d.err # Nil THEN [v |-> ZeroStruct(t), err |-> s.d.err, read |-> s.d.pos - 1]
    ELSE DecodeRoot(body, s,
                    BeginValue(Fld("", <<>>, "", "elem", "struct", t, FALSE), Nil, s.tok))

Decode(t, body) == DecodeFrom(t, body, FindStart(body, NewDecoder))

(***************************************************************************)
(* The clients.  NewZillow builds a client on the package's baseUrl; the   *)
(* tests build one directly on the URL of their own server.                *)
(***************************************************************************)
\* The two fields of the struct literal in the other order.
NewZillowSwapped(zwsId) == [zwsId |-> baseUrl, url |-> zwsId]

NewZillow(zwsId) == [zwsId |-> zwsId, url |-> baseUrl]

testZwsId == <<"test-id">>

\* httptest.Server.URL: scheme and host, no trailing slash.
tsURL == <<"http:", "/", "/", "127.0.0.1:8080">>

testFixturesClient == [zwsId |-> testZwsId, url |-> tsURL]

\* The application identifiers a caller constructs a client with.
ZwsIds == {<<"X", "1", "-", "a">>, <<"i", "d", "&", "=">>}

Clients == {"new", "test"}

\* The base URL the caller that constructs with id wants its client to
\* use: the service's, or a server of its own.  NewZillow has no parameter
\* to take it.
SuppliedUrl(id) ==
    IF id = <<"X", "1", "-", "a">>
    THEN <<"http:", "/", "/", "www.zillow.com", "/", "webservice">>
    ELSE <<"http:", "/", "/", "localhost:8080">>

(***************************************************************************)
(* The requests callers pass.  Every field has its zero value and one      *)
(* sample value of its own; a request is all zero, all sample, or zero     *)
(* but for one field.                                                      *)
(***************************************************************************)
SampleString(field) ==
    IF field = "Zpid" THEN <<"4", "8", "7", "4", "9", "4", "2", "5">>
    ELSE <<field, ",", " ", "&", "=", "e'">>

SampleInt(field) ==
    CASE field = "Width" -> 300
      [] field = "Height" -> 150
      [] field = "Count" -> 5
      [] field = "Price" -> 300000
      [] field = "Down" -> 15
      [] field = "DollarsDown" -> -45000
      [] OTHER -> 7

SampleRequest(t) ==
    [n \in FieldNames(t) |->
        LET f == t.fields[FieldIndex(t, n)]
        IN  CASE f.kind = "string" -> SampleString(n)
              [] f.kind = "int" -> SampleInt(n)
              [] f.kind = "bool" -> TRUE]

RequestsOf(t) ==
    {ZeroStruct(t), SampleRequest(t)}
        \cup {[ZeroStruct(t) EXCEPT ![n] = SampleRequest(t)[n]] : n \in FieldNames(t)}

(***************************************************************************)
(* The url.Values each operation builds from the client and the request.   *)
(***************************************************************************)
GetZestimateValues(zc, request) ==
    (zwsIdParam :> <<zc.zwsId>>)
        @@ (zpidParam :> <<request.Zpid>>)
        @@ (rentzestimateParam :> <<FormatBool(request.Rentzestimate)>>)

GetSearchResultsValues(zc, request) ==
    (zwsIdParam :> <<zc.zwsId>>)
        @@ (addressParam :> <<request.Address>>)
        @@ (cityStateZipParam :> <<request.CityStateZip>>)
        @@ (rentzestimateParam :> <<FormatBool(request.Rentzestimate)>>)

GetChartValues(zc, request) ==
    (zwsIdParam :> <<zc.zwsId>>)
        @@ (zpidParam :> <<request.Zpid>>)
        @@ (unitTypeParam :> <<request.UnitType>>)
        @@ (widthParam :> <<Itoa(request.Width)>>)
        @@ (heightParam :> <<Itoa(request.Height)>>)
        @@ (chartDurationParam :> <<request.Duration>>)

\* The values of GetComps with zero-valued fields left out.
GetCompsValuesOmitEmpty(zc, request) ==
    (zwsIdParam :> <<zc.zwsId>>)
        @@ (zpidParam :> <<request.Zpid>>)
        @@ (IF request.Count = 0 THEN <<>> ELSE countParam :> <<Itoa(request.Count)>>)
        @@ (IF request.Rentzestimate THEN rentzestimateParam :> <<FormatBool(TRUE)>>
            ELSE <<>>)

GetCompsValues(zc, request) ==
    (zwsIdParam :> <<zc.zwsId>>)
        @@ (zpidParam :> <<request.Zpid>>)
        @@ (countParam :> <<Itoa(request.Count)>>)
        @@ (rentzestimateParam :> <<FormatBool(request.Rentzestimate)>>)

GetDeepCompsValues(zc, request) ==
    (zwsIdParam :> <<zc.zwsId>>)
        @@ (zpidParam :> <<request.Zpid>>)
        @@ (countParam :> <<Itoa(request.Count)>>)
        @@ (rentzestimateParam :> <<FormatBool(request.Rentzestimate)>>)

GetDeepSearchResultsValues(zc, request) ==
    (zwsIdParam :> <<zc.zwsId>>)
        @@ (addressParam :> <<request.Address>>)
        @@ (cityStateZipParam :> <<request.CityStateZip>>)
        @@ (rentzestimateParam :> <<FormatBool(request.Rentzestimate)>>)

GetUpdatedPropertyDetailsValues(zc, request) ==
    (zwsIdParam :> <<zc.zwsId>>)
        @@ (zpidParam :> <<request.Zpid>>)

GetRegionChildrenValues(zc, request) ==
    (zwsIdParam :> <<zc.zwsId>>)
        @@ (regionIdParam :> <<request.RegionId>>)
        @@ (stateParam :> <<request.State>>)
        @@ (countryParam :> <<request.Country>>)
        @@ (cityParam :> <<request.City>>)
        @@ (childTypeParam :> <<request.ChildType>>)

GetRegionChartValues(zc, request) ==
    (zwsIdParam :> <<zc.zwsId>>)
        @@ (cityParam :> <<request.City>>)
        @@ (stateParam :> <<request.State>>)
        @@ (neighboorhoodParam :> <<request.Neighborhood>>)
        @@ (zipParam :> <<request.Zipcode>>)
        @@ (unitTypeParam :> <<request.UnitType>>)
        @@ (widthParam :> <<Itoa(request.Width)>>)
        @@ (heightParam :> <<Itoa(request.Height)>>)
        @@ (chartDurationParam :> <<request.ChartDuration>>)

GetRateSummaryValues(zc, request) ==
    (zwsIdParam :> <<zc.zwsId>>)
        @@ (stateParam :> <<request.State>>)

GetMonthlyPaymentsValues(zc, request) ==
    (zwsIdParam :> <<zc.zwsId>>)
        @@ (priceParam :> <<Itoa(request.Price)>>)
        @@ (downParam :> <<Itoa(request.Down)>>)
        @@ (dollarsDownParam :> <<Itoa(request.DollarsDown)>>)
        @@ (zipParam :> <<request.Zip>>)

(***************************************************************************)
(* The operations: the path constant each passes to get, the type of its   *)
(* result variable and the type of its request.                            *)
(***************************************************************************)
Ops == {"GetZestimate", "GetSearchResults", "GetChart", "GetComps", "GetDeepComps",
        "GetDeepSearchResults", "GetUpdatedPropertyDetails", "GetRegionChildren",
        "GetRegionChart", "GetRateSummary", "GetMonthlyPayments"}

PathOf(op) ==
    CASE op = "GetZestimate" -> zestimatePath
      [] op = "GetSearchResults" -> searchResultsPath
      [] op = "GetChart" -> chartPath
      [] op = "GetComps" -> compsPath
      [] op = "GetDeepComps" -> deepCompsPath
      [] op = "GetDeepSearchResults" -> deepSearchPath
      [] op = "GetUpdatedPropertyDetails" -> updatedPropertyDetailsPath
      [] op = "GetRegionChildren" -> regionChildrenPath
      [] op = "GetRegionChart" -> regionChartPath
      [] op = "GetRateSummary" -> rateSummaryPath
      [] op = "GetMonthlyPayments" -> monthlyPaymentsPath

ResultType(op) ==
    CASE op = "GetZestimate" -> ZestimateResult
      [] op = "GetSearchResults" -> SearchResults
      [] op = "GetChart" -> ChartResult
      [] op = "GetComps" -> CompsResult
      [] op = "GetDeepComps" -> DeepCompsResult
      [] op = "GetDeepSearchResults" -> DeepSearchResults
      [] op = "GetUpdatedPropertyDetails" -> UpdatedPropertyDetails
      [] op = "GetRegionChildren" -> RegionChildren
      [] op = "GetRegionChart" -> RegionChartResult
      [] op = "GetRateSummary" -> RateSummary
      [] op = "GetMonthlyPayments" -> MonthlyPayments

RequestType(op) ==
    CASE op = "GetZestimate" -> ZestimateRequest
      [] op = "GetSearchResults" -> SearchRequest
      [] op = "GetChart" -> ChartRequest
      [] op = "GetComps" -> CompsRequest
      [] op = "GetDeepComps" -> CompsRequest
      [] op = "GetDeepSearchResults" -> SearchRequest
      [] op = "GetUpdatedPropertyDetails" -> UpdatedPropertyDetailsRequest
      [] op = "GetRegionChildren" -> RegionChildrenRequest
      [] op = "GetRegionChart" -> RegionChartRequest
      [] op = "GetRateSummary" -> RateSummaryRequest
      [] op = "GetMonthlyPayments" -> MonthlyPaymentsRequest

(***************************************************************************)
(* The server.  It answers a GET with a status and a body.  The bodies it  *)
(* may send for an operation are built from the operation's sample         *)
(* document: the root element, the request element echoing the query it    *)
(* received, the message element and the response payload.                 *)
(***************************************************************************)
RootOf(op) ==
    CASE op = "GetZestimate" -> "zestimate"
      [] op = "GetSearchResults" -> "searchresults"
      [] op = "GetChart" -> "chart"
      [] op = "GetComps" -> "comps"
      [] op = "GetDeepComps" -> "comps"
      [] op = "GetDeepSearchResults" -> "searchresults"
      [] op = "GetUpdatedPropertyDetails" -> "updatedPropertyDetails"
      [] op = "GetRegionChildren" -> "regionchildren"
      [] op = "GetRegionChart" -> "regionchart"
      [] op = "GetRateSummary" -> "rateSummary"
      [] op = "GetMonthlyPayments" -> "paymentsSummary"

\* The root's namespace in the fixtures: a prefix or a schema URL.
SpaceOf(op) ==
    CASE op = "GetZestimate" -> "Zestimate"
      [] op = "GetSearchResults" -> "SearchResults"
      [] op = "GetDeepComps" -> "Comps"
      [] OTHER -> "http://www.zillow.com/static/xsd/" \o PathOf(op) \o ".xsd"

\* The request element: one child per parameter the server received, under
\* the parameter's own name, holding the value received.
EchoRequest(op, u) ==
    LET t == RequestType(op)
        one(f) == IF QueryValues(u, f.name) = <<>> THEN <<>>
                  ELSE Elem(f.name, QueryValues(u, f.name)[1])
    IN  Wrap("request", Flatten([i \in 1..Len(t.fields) |-> one(t.fields[i])]))

MessageElem(text, code) ==
    Wrap("message", Elem("text", text) \o Elem("code", Itoa(code)))

AmountElem(name, currency, n) ==
    <<StartNS(name, "", <<Attr("currency", currency)>>), Text(Itoa(n)), End(name)>>

RegionElem(id, typ, name) ==
    <<StartNS("region", "", <<Attr("id", id), Attr("type", typ), Attr("name", name)>>)>>
        \o Elem("zindexValue", <<"2", "5", "6", ",", "3", "0", "0">>)
        \o <<End("region")>>

AddressElem ==
    Wrap("address", Elem("street", <<"2114 Bigelow Ave N">>)
                        \o Elem("zipcode", <<"9", "8", "1", "0", "9">>)
                        \o Elem("city", <<"Seattle">>))

ZestimateElem ==
    Wrap("zestimate", AmountElem("amount", <<"USD">>, 1219500)
                          \o Elem("last-updated", <<"01/31/2015">>))

RateElem(loanType, count, rate) ==
    <<StartNS("rate", "", <<Attr("loanType", loanType), Attr("count", Itoa(count))>>),
      Text(rate), End("rate")>>

PaymentElem(loanType, rate, pi) ==
    <<StartNS("payment", "", <<Attr("loanType", loanType)>>)>>
        \o Elem("rate", rate) \o Elem("monthlyPrincipalAndInterest", Itoa(pi))
        \o <<End("payment")>>

Payload(op) ==
    CASE op = "GetZestimate" ->
            Elem("zpid", <<"4", "8">>) \o AddressElem \o ZestimateElem
                \o Wrap("localRealEstate",
                        RegionElem(<<"271856">>, <<"neighborhood">>, <<"East Queen Anne">>)
                            \o RegionElem(<<"16037">>, <<"city">>, <<"Seattle">>))
      [] op \in {"GetSearchResults", "GetDeepSearchResults"} ->
            Wrap("results",
                 Wrap("result", Elem("zpid", <<"4", "8">>) \o AddressElem \o ZestimateElem)
                     \o Wrap("result", Elem("zpid", <<"4", "9">>)))
      [] op = "GetChart" -> Elem("url", <<"http://www.zillow.com/app?chartType=partner">>)
      [] op \in {"GetComps", "GetDeepComps"} ->
            Wrap("properties",
                 Wrap("principal", Elem("zpid", <<"4", "8">>) \o AddressElem)
                     \o Wrap("comparables",
                             <<StartNS("comp", "", <<Attr("score", <<"9", ".", "0">>)>>)>>
                                 \o Elem("zpid", <<"5", "0">>) \o <<End("comp")>>
                                 \o <<StartNS("comp", "", <<Attr("score", <<"7", ".", "5">>)>>)>>
                                 \o Elem("zpid", <<"5", "1">>) \o <<End("comp")>>))
      [] op = "GetUpdatedPropertyDetails" ->
            Wrap("pageViewCount", Elem("currentMonth", Itoa(172)) \o Elem("total", Itoa(4149)))
                \o AddressElem
                \o Wrap("images", Elem("count", Itoa(2))
                                      \o Wrap("image", Elem("url", <<"u1">>) \o Elem("url", <<"u2">>)))
                \o Elem("homeDescription", <<"Bright, spacious home">>)
                \o Elem("neighborhood", <<"Queen Anne">>)
                \o Elem("schoolDistrict", <<"Seattle">>)
      [] op = "GetRegionChildren" ->
            Wrap("region", Elem("id", <<"16037">>) \o Elem("state", <<"Washington">>))
                \o Elem("subregiontype", <<"neighborhood">>)
                \o Wrap("list", Wrap("region", Elem("id", <<"250206">>) \o Elem("name", <<"Capitol Hill">>))
                                    \o Wrap("region", Elem("id", <<"271808">>) \o Elem("name", <<"Ballard">>)))
      [] op = "GetRegionChart" ->
            Elem("url", <<"http://localhost:8080/app?chartDuration=1year">>)
                \o AmountElem("zindex", <<"USD">>, 463115)
      [] op = "GetRateSummary" ->
            Wrap("today", RateElem(<<"thirtyYearFixed">>, 1252, <<"5", ".", "9", "1">>)
                              \o RateElem(<<"fifteenYearFixed">>, 839, <<"5", ".", "6", "8">>))
                \o Wrap("lastWeek", RateElem(<<"thirtyYearFixed">>, 8933, <<"6", ".", "0", "2">>))
      [] op = "GetMonthlyPayments" ->
            PaymentElem(<<"thirtyYearFixed">>, <<"5", ".", "9">>, 1512)
                \o PaymentElem(<<"fifteenYearFixed">>, <<"5", ".", "6", "8">>, 1477)
                \o Elem("downPayment", Itoa(45000))

\* The document the server sends for op: prolog whitespace, the root with
\* its namespace, the echoed request, the message and, when the service
\* reports no error, the response.
Document(op, u, text, code) ==
    <<Text(<<"\n">>), StartNS(RootOf(op), SpaceOf(op), <<>>)>>
        \o EchoRequest(op, u)
        \o MessageElem(text, code)
        \o (IF code = 0 THEN Wrap("response", Payload(op)) ELSE <<>>)
        \o <<End(RootOf(op)), Text(<<"\n">>)>>

\* A well-formed document: no broken token, every end tag closing the open
\* element, one root element and only white space outside it.
RECURSIVE Nesting(_, _, _)
Nesting(toks, stack, roots) ==
    IF toks = <<>> THEN stack = <<>> /\ roots = 1
    ELSE LET t == Head(toks)
         IN  CASE t.k = "bad" -> FALSE
               [] t.k = "start" ->
                    Nesting(Tail(toks), Append(stack, t.name),
                            IF stack = <<>> THEN roots + 1 ELSE roots)
               [] t.k = "end" ->
                    /\ stack # <<>>
                    /\ stack[Len(stack)] = t.name
                    /\ Nesting(Tail(toks), SubSeq(stack, 1, Len(stack) - 1), roots)
               [] t.k = "text" ->
                    /\ stack # <<>> \/ \A i \in 1..Len(t.s) : IsSpace(t.s[i])
                    /\ Nesting(Tail(toks), stack, roots)

WellFormed(toks) == Nesting(toks, <<>>, 0)

RootName(toks) ==
    LET starts == SelectSeq(toks, LAMBDA t : t.k = "start")
    IN  IF starts = <<>> THEN "" ELSE starts[1].name

\* What the service reports in message: success, and two of its error codes.
ServiceMessages ==
    {[text |-> <<"Request successfully processed">>, code |-> 0],
     [text |-> <<"Error: invalid or missing zpid parameter">>, code |-> 500],
     [text |-> <<"Error: this account is not authorized">>, code |-> 6]}

Body(kind, msg, toks) == [kind |-> kind, msg |-> msg, toks |-> toks]

\* The places a body is cut short at: nothing sent, inside the prolog, after
\* the root's start tag, half way, and just before the root's end tag.
CutPoints(doc) == {0, 1, 2, Len(doc) \div 2, Len(doc) - 2}

OtherOp(op) == IF op = "GetChart" THEN "GetZestimate" ELSE "GetChart"

\* The position of the end tag that closes the element open at depth
\* `depth` when position i is read.
RECURSIVE CloseOf(_, _, _)
CloseOf(toks, i, depth) ==
    IF toks[i].k = "end" /\ depth = 1 THEN i
    ELSE CloseOf(toks, i + 1,
                 CASE toks[i].k = "start" -> depth + 1
                   [] toks[i].k = "end" -> depth - 1
                   [] OTHER -> depth)

\* The position of the end tag of the element whose start tag is at i.
EndOf(toks, i) == CloseOf(toks, i + 1, 1)

\* The positions of the start tags of the child elements found from i up
\* to hi.
RECURSIVE ChildrenOf(_, _, _)
ChildrenOf(toks, i, hi) ==
    IF i >= hi THEN <<>>
    ELSE IF toks[i].k = "start"
    THEN <<i>> \o ChildrenOf(toks, EndOf(toks, i) + 1, hi)
    ELSE ChildrenOf(toks, i + 1, hi)

\* The element el (start tag to end tag) with its child elements in
\* another order, and theirs in turn: the children of one name keep their
\* order among themselves, and the names come in the reverse of the order
\* they first appear in.
RECURSIVE Reordered(_)
Reordered(el) ==
    LET kids == ChildrenOf(el, 2, Len(el))
        n == Len(kids)
        name(j) == el[kids[j]].name
        first(j) == CHOOSE a \in 1..n :
                        name(a) = name(j) /\ \A b \in 1..(a - 1) : name(b) # name(j)
        rank(j) == 1 + Cardinality({b \in 1..n :
                                       \/ first(b) > first(j)
                                       \/ first(b) = first(j) /\ b < j})
        at(r) == CHOOSE j \in 1..n : rank(j) = r
    IN  IF n = 0 THEN el
        ELSE <<el[1]>>
                 \o Flatten([r \in 1..n |->
                                Reordered(SubSeq(el, kids[at(r)], EndOf(el, kids[at(r)])))])
                 \o <<el[Len(el)]>>

\* Text that is no integer, no boolean and no decimal number.
NotANumber == <<"1", "2", "x">>

\* The position of the first start tag named name.
FirstNamed(doc, name) ==
    CHOOSE i \in 1..Len(doc) :
        /\ doc[i].k = "start" /\ doc[i].name = name
        /\ \A j \in 1..(i - 1) : ~(doc[j].k = "start" /\ doc[j].name = name)

\* doc with NotANumber as the text of the element that starts at i, or as
\* the value of its attribute attr.
Spoil(doc, i, attr) ==
    IF attr = "" THEN [doc EXCEPT ![i + 1] = Text(NotANumber)]
    ELSE [doc EXCEPT ![i].attr =
             [j \in 1..Len(doc[i].attr) |->
                 IF doc[i].attr[j].name = attr THEN Attr(attr, NotANumber)
                 ELSE doc[i].attr[j]]]

\* A number of the operation's payload: the element that holds it and, if
\* it is an attribute, the attribute.
NumberOf(op) ==
    CASE op \in {"GetZestimate", "GetSearchResults", "GetDeepSearchResults"} ->
            [name |-> "amount", attr |-> ""]
      [] op \in {"GetComps", "GetDeepComps"} -> [name |-> "comp", attr |-> "score"]
      [] op = "GetUpdatedPropertyDetails" -> [name |-> "currentMonth", attr |-> ""]
      [] op = "GetRegionChart" -> [name |-> "zindex", attr |-> ""]
      [] op = "GetRateSummary" -> [name |-> "rate", attr |-> "count"]
      [] op = "GetMonthlyPayments" -> [name |-> "monthlyPrincipalAndInterest", attr |-> ""]
      [] OTHER -> [name |-> "", attr |-> ""]

\* The document doc with the siblings under its root, and below, reordered.
Shuffled(doc) ==
    <<doc[1]>> \o Reordered(SubSeq(doc, 2, Len(doc) - 1)) \o <<doc[Len(doc)]>>

\* The document doc with its root element in the namespace space.
Respaced(doc, space) ==
    LET r == FirstNamed(doc, RootName(doc))
    IN  [doc EXCEPT ![r].space = space]

BodiesOf(op, u, ok, doc) ==
    {Body("document", m, Document(op, u, m.text, m.code)) : m \in ServiceMessages}
        \cup {Body("truncated", ok, SubSeq(doc, 1, n)) : n \in CutPoints(doc)}
        \cup {Body("broken", ok,
                   SubSeq(doc, 1, Len(doc) \div 2) \o <<Bad>>
                       \o SubSeq(doc, Len(doc) \div 2 + 1, Len(doc))),
              Body("misnested", ok,
                   SubSeq(doc, 1, Len(doc) - 2) \o <<End("response"), Text(<<"\n">>)>>),
              Body("otherroot", ok, Document(OtherOp(op), u, ok.text, ok.code)),
              Body("trailing", ok, doc \o <<Start("html"), Bad>>),
              Body("tworoots", ok, doc \o Wrap("html", <<>>)),
              Body("reordered", ok, Shuffled(doc)),
              Body("badcode", ok, Spoil(doc, FirstNamed(doc, "code"), "")),
              Body("otherspace", ok, Respaced(doc, "urn:example:other")),
              Body("nospace", ok, Respaced(doc, ""))}
        \cup {Body("badnumber", ok, Spoil(doc, FirstNamed(doc, n.name), n.attr)) :
                 n \in {n \in {NumberOf(op)} : n.name # ""}}

SuccessMessage == [text |-> <<"Request successfully processed">>, code |-> 0]

ServerBodies(op, u) ==
    BodiesOf(op, u, SuccessMessage, Document(op, u, SuccessMessage.text, SuccessMessage.code))

Statuses == {200, 404, 500}

\* What the server may answer: any body with 200, and a document with any
\* status.
Answers(bodies) ==
    {[status |-> s, body |-> b] : s \in Statuses, b \in bodies}

ServerResponses(op, u) ==
    {r \in Answers(ServerBodies(op, u)) : r.status = 200 \/ r.body.kind = "document"}

HttpErrors ==
    {[kind |-> "transport", msg |-> "dial tcp: connection refused"],
     [kind |-> "transport", msg |-> "dial tcp: lookup: no such host"],
     [kind |-> "transport", msg |-> "net/http: timeout awaiting response headers"]}

(***************************************************************************)
(* The state.                                                              *)
(*   z       the clients: z[k] is the zillow struct of client k            *)
(*   ctor    the identifier each client's caller supplied at construction  *)
(*   ctorUrl the base URL each client's caller means requests to go to     *)
(*   pc      where each calling goroutine is: "idle", "get" (inside        *)
(*           http.Get), "decode" (reading the body), "done" (returned)     *)
(*   call    each goroutine's call: the caller's request value, the        *)
(*           locals of the operation and of get, what the transport        *)
(*           delivered, and the values returned                            *)
(*   ncalls  the number of calls started                                   *)
(*   wire    the number of GET requests sent                               *)
(*   open    the number of response bodies received and not closed         *)
(***************************************************************************)
VARIABLES z, ctor, ctorUrl, pc, call, ncalls, wire, open

vars == <<z, ctor, ctorUrl, pc, call, ncalls, wire, open>>

Goroutines == {"g1", "g2"}

NoResponse == [status |-> 0, kind |-> "", msg |-> [text |-> <<>>, code |-> 0], toks |-> <<>>]

IdleCall ==
    [client |-> "", op |-> "", request |-> <<>>, passed |-> <<>>, url |-> <<>>,
     gets |-> 0, neterr |-> Nil, resp |-> Nil, decodes |-> 0, read |-> 0,
     result |-> <<>>, ret |-> [result |-> Nil, err |-> Nil]]

Init ==
    /\ \E id \in ZwsIds :
          /\ z = [k \in Clients |-> IF k = "new" THEN NewZillow(id) ELSE testFixturesClient]
          /\ ctor = [k \in Clients |-> IF k = "new" THEN id ELSE testZwsId]
          /\ ctorUrl = [k \in Clients |-> IF k = "new" THEN SuppliedUrl(id) ELSE tsURL]
    /\ pc = [c \in Goroutines |-> "idle"]
    /\ call = [c \in Goroutines |-> IdleCall]
    /\ ncalls = 0
    /\ wire = 0
    /\ open = 0

\* The receiver with the URL last requested kept in its url field.
receiverKeepsUrl(zc, u) == [zc EXCEPT !.url = u]

\* The receiver *zillow once an operation has built and requested u: get
\* and the operations read z.zwsId and z.url and assign to neither.
receiver(zc, u) == zc

\* A request of zero values rejected before anything is sent.
httpGetValidated(cl, u) ==
    IF cl.request = ZeroStruct(RequestType(cl.op)) THEN [cl EXCEPT !.url = u]
    ELSE [cl EXCEPT !.url = u, !.gets = @ + 1]

\* The query written in an order that changes from one request to the
\* next (the order of a map's iteration) instead of by sorted key.
httpGetMapOrder(cl, u) ==
    LET pairs == Split(RawQuery(u), "&")
        turned == [i \in 1..Len(pairs) |-> pairs[Len(pairs) + 1 - i]]
    IN  [cl EXCEPT !.url = IF wire % 2 = 0 THEN u
                            ELSE UrlBeforeQuery(u) \o <<"?">> \o JoinAmp(turned),
                   !.gets = @ + 1]

\* http.Get(url) as get issues it: one request goes out.
httpGet(cl, u) == [cl EXCEPT !.url = u, !.gets = @ + 1]

\* The error of http.Get dropped.
getHttpErrorSwallowed(err) == Nil

\* get when http.Get returned an error: the error is returned as it is.
getHttpError(err) == err

\* get when Decode returned: Decode's error (nil on success) is returned.
getDecoded(err) == err

\* get waiting, after a failed Decode, for something that never comes.
getThenWaits(err) == IF err # Nil THEN "wait" ELSE "done"

\* Where the call is once Decode has returned in get: both branches return
\* to the operation, which returns to its caller; nothing is tried again and
\* nothing is waited for.
getThen(err) == "done"

\* The address of the result variable returned whatever get returned.
opReturnAlways(result, err) == [result |-> Ptr(result), err |-> err]

\* How every operation ends: nil and the error when get failed, the address
\* of its result variable and a nil error otherwise.
opReturn(result, err) ==
    IF err # Nil THEN [result |-> Nil, err |-> err]
    ELSE [result |-> Ptr(result), err |-> Nil]

\* A response kept in a variable all calls share.
respShared(calls, c) ==
    IF calls["g1"].resp # Nil THEN calls["g1"].resp[1] ELSE calls[c].resp[1]

\* The response whose body the decoder of goroutine c reads: get's own resp.
respOf(calls, c) == calls[c].resp[1]

\* An operation up to the point where it blocks in http.Get: the caller's
\* request is passed by value, the query values are built, the result
\* variable is declared and get requests the URL.
Invoke(c, k, op, request, values) ==
    /\ pc[c] = "idle"
    /\ ncalls < MaxCalls
    /\ call' = [call EXCEPT ![c] =
                  httpGet([IdleCall EXCEPT !.client = k, !.op = op, !.request = request,
                                           !.passed = request,
                                           !.result = ZeroStruct(ResultType(op))],
                          RequestUrl(z[k], PathOf(op), values))]
    /\ pc' = [pc EXCEPT ![c] = "get"]
    /\ ncalls' = ncalls + 1
    /\ wire' = wire + (call'[c].gets - call[c].gets)
    /\ z' = [z EXCEPT ![k] = receiver(z[k], call'[c].url)]
    /\ UNCHANGED <<ctor, ctorUrl, open>>

GetZestimate(c, k, request) ==
    Invoke(c, k, "GetZestimate", request, GetZestimateValues(z[k], request))

GetSearchResults(c, k, request) ==
    Invoke(c, k, "GetSearchResults", request, GetSearchResultsValues(z[k], request))

GetChart(c, k, request) ==
    Invoke(c, k, "GetChart", request, GetChartValues(z[k], request))

GetComps(c, k, request) ==
    Invoke(c, k, "GetComps", request, GetCompsValues(z[k], request))

GetDeepComps(c, k, request) ==
    Invoke(c, k, "GetDeepComps", request, GetDeepCompsValues(z[k], request))

GetDeepSearchResults(c, k, request) ==
    Invoke(c, k, "GetDeepSearchResults", request, GetDeepSearchResultsValues(z[k], request))

GetUpdatedPropertyDetails(c, k, request) ==
    Invoke(c, k, "GetUpdatedPropertyDetails", request,
           GetUpdatedPropertyDetailsValues(z[k], request))

GetRegionChildren(c, k, request) ==
    Invoke(c, k, "GetRegionChildren", request, GetRegionChildrenValues(z[k], request))

GetRegionChart(c, k, request) ==
    Invoke(c, k, "GetRegionChart", request, GetRegionChartValues(z[k], request))

GetRateSummary(c, k, request) ==
    Invoke(c, k, "GetRateSummary", request, GetRateSummaryValues(z[k], request))

GetMonthlyPayments(c, k, request) ==
    Invoke(c, k, "GetMonthlyPayments", request, GetMonthlyPaymentsValues(z[k], request))

\* A failed decoding followed by a second GET.
decodedRetry(cl, r) ==
    [cl EXCEPT !.result = r.v, !.decodes = @ + 1, !.read = r.read,
               !.gets = IF r.err # Nil THEN @ + 1 ELSE @,
               !.ret = [result |-> IF r.err # Nil THEN Nil ELSE Ptr(r.v), err |-> r.err]]

\* The Request of the result filled in from the request passed.
decodedOwnRequest(cl, r) ==
    [cl EXCEPT !.result = r.v, !.decodes = @ + 1, !.read = r.read,
               !.ret = opReturn([r.v EXCEPT !.Request = cl.request], getDecoded(r.err))]

\* The locals of a call once Decode returned r.
decoded(cl, r) ==
    [cl EXCEPT !.result = r.v, !.decodes = @ + 1, !.read = r.read,
               !.ret = opReturn(r.v, getDecoded(r.err))]

\* http.Get fails: get returns the error and the operation returns nil with it.
HttpGetFails(c, err) ==
    /\ pc[c] = "get"
    /\ call' = [call EXCEPT ![c].neterr = Ptr(err),
                            ![c].ret = opReturn(call[c].result, getHttpError(Ptr(err)))]
    /\ pc' = [pc EXCEPT ![c] = "done"]
    /\ UNCHANGED <<z, ctor, ctorUrl, ncalls, wire, open>>

\* http.Get returns a response, whatever its status: its body is now open.
HttpGetResponds(c, status, body) ==
    /\ pc[c] = "get"
    /\ call' = [call EXCEPT ![c].resp =
                  Ptr([status |-> status, kind |-> body.kind, msg |-> body.msg,
                       toks |-> body.toks])]
    /\ pc' = [pc EXCEPT ![c] = "decode"]
    /\ open' = open + 1
    /\ UNCHANGED <<z, ctor, ctorUrl, ncalls, wire>>

\* xml.NewDecoder(resp.Body).Decode(result), then the operation's return.
\* The body is not closed.
XmlDecode(c) ==
    /\ pc[c] = "decode"
    /\ call' = [call EXCEPT ![c] =
                  decoded(call[c], Decode(ResultType(call[c].op), respOf(call, c).toks))]
    /\ pc' = [pc EXCEPT ![c] = getThen(call'[c].ret.err)]
    /\ UNCHANGED <<z, ctor, ctorUrl, ncalls, wire, open>>

\* The caller takes the returned values; the goroutine may call again.
Return(c) ==
    /\ pc[c] = "done"
    /\ call' = [call EXCEPT ![c] = IdleCall]
    /\ pc' = [pc EXCEPT ![c] = "idle"]
    /\ UNCHANGED <<z, ctor, ctorUrl, ncalls, wire, open>>

\* A call of any operation by goroutine c on client k, with a request from reqs(op).
Operation(c, k, reqs(_)) ==
    \/ \E r \in reqs("GetZestimate") : GetZestimate(c, k, r)
    \/ \E r \in reqs("GetSearchResults") : GetSearchResults(c, k, r)
    \/ \E r \in reqs("GetChart") : GetChart(c, k, r)
    \/ \E r \in reqs("GetComps") : GetComps(c, k, r)
    \/ \E r \in reqs("GetDeepComps") : GetDeepComps(c, k, r)
    \/ \E r \in reqs("GetDeepSearchResults") : GetDeepSearchResults(c, k, r)
    \/ \E r \in reqs("GetUpdatedPropertyDetails") : GetUpdatedPropertyDetails(c, k, r)
    \/ \E r \in reqs("GetRegionChildren") : GetRegionChildren(c, k, r)
    \/ \E r \in reqs("GetRegionChart") : GetRegionChart(c, k, r)
    \/ \E r \in reqs("GetRateSummary") : GetRateSummary(c, k, r)
    \/ \E r \in reqs("GetMonthlyPayments") : GetMonthlyPayments(c, k, r)

AllRequests(op) == RequestsOf(RequestType(op))

\* One caller, calling one operation after another on either client.
Next ==
    \E c \in {"g1"} :
        \/ \E k \in Clients : Operation(c, k, AllRequests)
        \/ \E e \in HttpErrors : HttpGetFails(c, e)
        \/ /\ pc[c] = "get"
           /\ \E r \in ServerResponses(call[c].op, call[c].url) :
                 HttpGetResponds(c, r.status, r.body)
        \/ XmlDecode(c)
        \/ Return(c)

Spec == Init /\ [][Next]_vars

(***************************************************************************)
(* Two goroutines calling concurrently, each with the sample request of    *)
(* its operation; the server answers 200 with the operation's document or  *)
(* with another operation's.                                               *)
(***************************************************************************)
ConcRequests(op) == {SampleRequest(RequestType(op))}

ConcBodies(op, u) ==
    {b \in ServerBodies(op, u) : b.kind \in {"document", "otherroot"} /\ b.msg.code = 0}

NextConc ==
    \E c \in Goroutines :
        \/ Operation(c, "new", ConcRequests)
        \/ \E e \in {CHOOSE e \in HttpErrors : TRUE} : HttpGetFails(c, e)
        \/ /\ pc[c] = "get"
           /\ \E b \in ConcBodies(call[c].op, call[c].url) : HttpGetResponds(c, 200, b)
        \/ XmlDecode(c)
        \/ Return(c)

SpecConc == Init /\ [][NextConc]_vars

(***************************************************************************)
(* One caller on the client of NewZillow, each operation with its sample   *)
(* request, and a transport that does deliver: http.Get returns in the end *)
(* (an error or a response) and the body it hands over is finite, so that  *)
(* Decode, once started, returns.                                          *)
(***************************************************************************)
TransportDelivers(c) ==
    \/ \E e \in HttpErrors : HttpGetFails(c, e)
    \/ /\ pc[c] = "get"
       /\ \E r \in ServerResponses(call[c].op, call[c].url) :
             HttpGetResponds(c, r.status, r.body)

NextLive ==
    \/ Operation("g1", "new", ConcRequests)
    \/ TransportDelivers("g1")
    \/ XmlDecode("g1")
    \/ Return("g1")

\* Decode returns in get, with an error or without one: what XmlDecode does
\* to the caller's position.
DecodeReturns(c) ==
    /\ pc[c] = "decode"
    /\ \E err \in {Nil, Ptr("XML syntax error")} : pc' = [pc EXCEPT ![c] = getThen(err)]

SpecLive ==
    /\ Init
    /\ [][NextLive]_vars
    /\ WF_vars(TransportDelivers("g1"))
    /\ WF_pc(DecodeReturns("g1"))

(***************************************************************************)
(* Properties.                                                             *)
(***************************************************************************)
Active == {c \in Goroutines : pc[c] # "idle"}

Returned == {c \in Goroutines : pc[c] = "done"}

\* Returned after the transport delivered a response.
Answered == {c \in Returned : call[c].resp # Nil}

\* C1: every call of every operation returns exactly one of a non-nil Result
\* (with a nil error) and a non-nil error (with a nil Result); never both,
\* never neither.
C1_ResultXorError ==
    \A c \in Returned :
        /\ Len(call[c].ret.result) <= 1
        /\ Len(call[c].ret.err) <= 1
        /\ (call[c].ret.result # Nil) # (call[c].ret.err # Nil)

\* A call whose decoding failed after part of the result variable was filled
\* in: it returns the error and no Result.
C1_Witness ==
    \E c \in Answered :
        /\ call[c].decodes = 1
        /\ call[c].result # ZeroStruct(ResultType(call[c].op))
        /\ call[c].ret.err # Nil

\* C2: when the server answers with a non-2xx status the call fails with an
\* error and returns no Result, whatever the body holds.
C2_NonOkStatusFails ==
    \A c \in Answered :
        call[c].resp[1].status \notin 200..299
            => call[c].ret.err # Nil /\ call[c].ret.result = Nil

\* C3: when the HTTP GET itself fails, the call returns that transport error
\* and a nil Result, and no XML decoding is attempted.
C3_TransportErrorReturned ==
    \A c \in Goroutines :
        call[c].neterr # Nil
            => /\ pc[c] = "done"
               /\ call[c].ret = [result |-> Nil, err |-> call[c].neterr]
               /\ call[c].neterr[1].kind = "transport"
               /\ call[c].decodes = 0
               /\ call[c].read = 0

C3_Witness == \E c \in Returned : call[c].neterr # Nil /\ call[c].gets = 1

\* C4: when the response body is a truncated or otherwise malformed XML
\* document (an empty body included), the call fails with a decode error and
\* returns a nil Result.
C4_MalformedBodyFails ==
    \A c \in Answered :
        ~WellFormed(call[c].resp[1].toks)
            => /\ call[c].ret.result = Nil
               /\ call[c].ret.err # Nil
               /\ call[c].ret.err[1].kind = "decode"

\* C5: a well-formed response whose message code is non-zero makes the call
\* succeed, and the Result's Message.Code and Message.Text are the code and
\* the text the response's message element holds.
C5_NonZeroCodeSucceeds ==
    \A c \in Answered :
        LET resp == call[c].resp[1]
        IN  (/\ resp.kind = "document"
             /\ WellFormed(resp.toks)
             /\ RootName(resp.toks) = RootOf(call[c].op)
             /\ resp.msg.code # 0)
                => /\ call[c].ret.err = Nil
                   /\ call[c].ret.result # Nil
                   /\ call[c].ret.result[1].Message.Code = resp.msg.code
                   /\ call[c].ret.result[1].Message.Text = resp.msg.text

C5_Witness ==
    \E c \in Answered :
        /\ call[c].resp[1].kind = "document"
        /\ call[c].resp[1].msg.code = 500
        /\ call[c].resp[1].status = 200
        /\ call[c].ret.result # Nil

\* The query keys each operation is to send besides the application
\* identifier, each with the request field it carries.
DocumentedParams(op) ==
    CASE op = "GetZestimate" -> <<<<"zpid", "Zpid">>, <<"rentzestimate", "Rentzestimate">>>>
      [] op \in {"GetSearchResults", "GetDeepSearchResults"} ->
            <<<<"address", "Address">>, <<"citystatezip", "CityStateZip">>,
              <<"rentzestimate", "Rentzestimate">>>>
      [] op = "GetChart" ->
            <<<<"zpid", "Zpid">>, <<"unit-type", "UnitType">>, <<"width", "Width">>,
              <<"height", "Height">>, <<"chartDuration", "Duration">>>>
      [] op \in {"GetComps", "GetDeepComps"} ->
            <<<<"zpid", "Zpid">>, <<"count", "Count">>, <<"rentzestimate", "Rentzestimate">>>>
      [] op = "GetUpdatedPropertyDetails" -> <<<<"zpid", "Zpid">>>>
      [] op = "GetRegionChildren" ->
            <<<<"regionId", "RegionId">>, <<"state", "State">>, <<"country", "Country">>,
              <<"city", "City">>, <<"childtype", "ChildType">>>>
      [] op = "GetRegionChart" ->
            <<<<"city", "City">>, <<"state", "State">>, <<"neighborhood", "Neighborhood">>,
              <<"zip", "Zipcode">>, <<"unit-type", "UnitType">>, <<"width", "Width">>,
              <<"height", "Height">>, <<"chartDuration", "ChartDuration">>>>
      [] op = "GetRateSummary" -> <<<<"state", "State">>>>
      [] op = "GetMonthlyPayments" ->
            <<<<"price", "Price">>, <<"down", "Down">>, <<"dollarsdown", "DollarsDown">>,
              <<"zip", "Zip">>>>

\* A request field as query text: a string as it is, an integer in decimal,
\* a boolean as true or false.
FieldText(op, request, field) ==
    LET t == RequestType(op)
        kind == t.fields[FieldIndex(t, field)].kind
    IN  CASE kind = "string" -> request[field]
          [] kind = "int" -> Itoa(request[field])
          [] kind = "bool" -> FormatBool(request[field])

ExactQueryKeys(c) ==
    LET params == DocumentedParams(call[c].op)
    IN  /\ QueryKeys(call[c].url) = {<<"zws-Id">>} \cup {<<p[1]>> : p \in Range(params)}
        /\ \A p \in Range(params) :
              QueryValues(call[c].url, p[1])
                  = <<FieldText(call[c].op, call[c].request, p[2])>>

\* C6: the query keys sent are exactly the application identifier and the
\* keys of the operation (GetRegionChart's among them: city, state,
\* neighborhood, zip, unit-type, width, height, chartDuration), each with
\* exactly one value, the corresponding request field.
C6_ExactQueryKeys == \A c \in Active : ExactQueryKeys(c)

\* C7: every request of every call carries the application identifier
\* parameter exactly once, with the identifier the client was constructed
\* with.
C7_ZwsIdOnce ==
    \A c \in Active : QueryValues(call[c].url, zwsIdParam) = <<ctor[call[c].client]>>

\* The second call of a sequence, on the client NewZillow built with an
\* identifier that needs escaping.
C7_Witness ==
    \E c \in Active :
        /\ ncalls = 2
        /\ call[c].client = "new"
        /\ ctor["new"] = <<"i", "d", "&", "=">>

\* The number of "/" right before position i of u.
RECURSIVE SlashesBefore(_, _)
SlashesBefore(u, i) ==
    IF i > 1 /\ u[i - 1] = "/" THEN 1 + SlashesBefore(u, i - 1) ELSE 0

\* The path segment of an operation: GetZestimate for zestimatePath.
Segment(op) == <<"Get", PathOf(op)>>

\* C8: the URL requested is the client's base URL, one "/", the operation's
\* path segment, ".htm?" and the encoded query; the path ends with the
\* operation's path and ".htm"; and for a client built by NewZillow exactly
\* one "/" separates the base URL from the operation's path segment.
C8_UrlShape ==
    \A c \in Active :
        LET u == call[c].url
            before == UrlBeforeQuery(u)
            base == z[call[c].client].url
        IN  /\ before = base \o <<"/">> \o Segment(call[c].op) \o <<".htm">>
            /\ IndexOf(u, "?") = Len(before) + 1
            /\ SubSeq(before, Len(before) - 1, Len(before)) = <<PathOf(call[c].op), ".htm">>
            /\ call[c].client = "new" => SlashesBefore(u, IndexOf(u, "Get")) = 1

\* C9: every call issues exactly one GET: none before it is made, one while
\* it waits, decodes and once it has returned, after a failure as after a
\* success; the requests sent are as many as the calls started.
C9_OneGetPerCall ==
    /\ \A c \in Goroutines : call[c].gets = (IF pc[c] = "idle" THEN 0 ELSE 1)
    /\ wire = ncalls

\* A second call returned after its decoding failed.
C9_Witness ==
    \E c \in Answered : ncalls = 2 /\ wire = 2 /\ call[c].ret.err # Nil

\* The outcome of a call running alone with the same request and the same
\* answer of the transport.
Alone(cl) ==
    IF cl.neterr # Nil THEN [result |-> Nil, err |-> cl.neterr]
    ELSE LET r == Decode(ResultType(cl.op), cl.resp[1].toks)
         IN  IF r.err # Nil THEN [result |-> Nil, err |-> r.err]
             ELSE [result |-> Ptr(r.v), err |-> Nil]

\* C10: in any interleaving of concurrent calls on the same client, each
\* call's outcome is the one it would have had running alone with the same
\* request and the same response.
C10_CallsIndependent == \A c \in Returned : call[c].ret = Alone(call[c])

\* Two calls on the same client in flight together with different
\* responses: one has returned its Result while the other still decodes.
C10_Witness ==
    /\ pc["g1"] = "decode"
    /\ pc["g2"] = "done"
    /\ call["g1"].client = call["g2"].client
    /\ call["g1"].op # call["g2"].op
    /\ call["g2"].ret.result # Nil

\* C11: no operation changes the caller's request value or the client's own
\* fields: after any sequence of calls, successful or failed, the client's
\* identifier and base URL are the ones it was constructed with and the
\* caller's request is the value it passed.
C11_NoLocalMutation ==
    /\ z["new"] = [zwsId |-> ctor["new"], url |-> baseUrl]
    /\ z["test"] = [zwsId |-> ctor["test"], url |-> tsURL]
    /\ \A c \in Active : call[c].request = call[c].passed

\* A second call, made with a request that is not all zero, has failed.
C11_Witness ==
    \E c \in Returned :
        /\ ncalls = 2
        /\ call[c].ret.err # Nil
        /\ call[c].request # ZeroStruct(RequestType(call[c].op))

\* The positions in toks of the start tags of the elements whose path, from
\* the root down, is path.
RECURSIVE StartsAt(_, _, _, _)
StartsAt(toks, i, stack, path) ==
    IF i > Len(toks) THEN <<>>
    ELSE LET t == toks[i]
         IN  CASE t.k = "start" ->
                    (IF Append(stack, t.name) = path THEN <<i>> ELSE <<>>)
                        \o StartsAt(toks, i + 1, Append(stack, t.name), path)
               [] t.k = "end" ->
                    StartsAt(toks, i + 1, SubSeq(stack, 1, Len(stack) - 1), path)
               [] OTHER -> StartsAt(toks, i + 1, stack, path)

ElementsAt(toks, path) == StartsAt(toks, 1, <<>>, path)

\* The text right after the start tag at position i.
TextAt(toks, i) ==
    IF i < Len(toks) /\ toks[i + 1].k = "text" THEN toks[i + 1].s ELSE <<>>

\* The value of the attribute name of the start tag at position i.
AttrAt(toks, i, name) ==
    LET a == SelectSeq(toks[i].attr, LAMBDA x : x.name = name)
    IN  IF a = <<>> THEN <<>> ELSE a[1].value

\* Calls answered with a well-formed document of the operation's own root
\* that returned a Result.
Decodings ==
    {c \in Answered : /\ WellFormed(call[c].resp[1].toks)
                      /\ RootName(call[c].resp[1].toks) = RootOf(call[c].op)
                      /\ call[c].ret.result # Nil}

\* C12: for GetZestimate a well-formed response decodes so that
\* Address.Zipcode is the text of response>address>zipcode and
\* Zestimate.Amount holds the integer text and the currency attribute of
\* response>zestimate>amount; for the fixture (zipcode 98109, amount
\* 1219500 USD) that is Zipcode "98109" and Amount.Value 1219500.
C12_ZestimateDecoded ==
    \A c \in Decodings :
        LET toks == call[c].resp[1].toks
            zip == ElementsAt(toks, <<"zestimate", "response", "address", "zipcode">>)
            amount == ElementsAt(toks, <<"zestimate", "response", "zestimate", "amount">>)
            result == call[c].ret.result[1]
        IN  (call[c].op = "GetZestimate" /\ zip # <<>> /\ amount # <<>>)
                => /\ result.Address.Zipcode = TextAt(toks, zip[1])
                   /\ Itoa(result.Zestimate.Amount.Value) = TextAt(toks, amount[1])
                   /\ result.Zestimate.Amount.Currency = AttrAt(toks, amount[1], "currency")
                   /\ result.Address.Zipcode = <<"9", "8", "1", "0", "9">>
                   /\ result.Zestimate.Amount.Value = 1219500
                   /\ result.Zestimate.Amount.Currency = <<"USD">>

\* GetZestimate requested with property id 48749425 and answered with the
\* fixture.
C12_Witness ==
    \E c \in Decodings :
        /\ call[c].op = "GetZestimate"
        /\ call[c].request.Zpid = <<"4", "8", "7", "4", "9", "4", "2", "5">>
        /\ ElementsAt(call[c].resp[1].toks,
                      <<"zestimate", "response", "address", "zipcode">>) # <<>>
        /\ call[c].ret.result[1].Zestimate.Amount.Value = 1219500

\* v, the value of field f, is Go's zero value of f's type: "", 0, false, an
\* empty list, or a struct of zero values.
RECURSIVE IsZeroField(_, _)
IsZeroField(f, v) ==
    IF f.slice THEN v = <<>>
    ELSE CASE f.kind = "string" -> v = <<>>
           [] f.kind = "int" -> v = 0
           [] f.kind = "bool" -> v = FALSE
           [] f.kind = "float64" -> v.num = 0
           [] f.kind = "struct" ->
                \A i \in 1..Len(f.elem.fields) :
                    IsZeroField(f.elem.fields[i], v[f.elem.fields[i].field])

HasAttr(toks, i, name) == \E j \in 1..Len(toks[i].attr) : toks[i].attr[j].name = name

\* Every field of v, a struct of type t decoded from the one element at
\* path (its start tag at position start), whose element or attribute the
\* document does not hold is zero; so for the structs below it.
RECURSIVE AbsentZero(_, _, _, _, _)
AbsentZero(t, v, toks, path, start) ==
    \A i \in 1..Len(t.fields) :
        LET f == t.fields[i]
            at == ElementsAt(toks, path \o f.parents \o <<f.name>>)
        IN  CASE f.mode = "attr" ->
                    ~HasAttr(toks, start, f.name) => IsZeroField(f, v[f.field])
              [] f.mode = "elem" ->
                    /\ at = <<>> => IsZeroField(f, v[f.field])
                    /\ (Len(at) = 1 /\ f.kind = "struct" /\ ~f.slice)
                          => AbsentZero(f.elem, v[f.field], toks,
                                        path \o f.parents \o <<f.name>>, at[1])
              [] OTHER -> TRUE

\* C13: for every operation, an element or attribute absent from an
\* otherwise well-formed response leaves the corresponding Result field at
\* its zero value and does not make the call fail; so does a response with
\* no response element at all.
C13_AbsentIsZero ==
    /\ \A c \in Answered :
          call[c].resp[1].kind = "document"
              => call[c].ret.err = Nil /\ c \in Decodings
    /\ \A c \in Decodings :
          AbsentZero(ResultType(call[c].op), call[c].ret.result[1], call[c].resp[1].toks,
                     <<RootOf(call[c].op)>>,
                     ElementsAt(call[c].resp[1].toks, <<RootOf(call[c].op)>>)[1])

\* A document without a response element was decoded into a Result.
C13_Witness ==
    \E c \in Decodings :
        /\ ElementsAt(call[c].resp[1].toks, <<RootOf(call[c].op), "response">>) = <<>>
        /\ ElementsAt(call[c].resp[1].toks, <<RootOf(call[c].op), "message">>) # <<>>

\* C14: the base URL and the application identifier a client uses are the
\* values its caller supplied when constructing it through the public
\* constructor: every request of a client built by NewZillow goes to the
\* base URL its caller supplied and carries the identifier it supplied.
C14_ConstructedWith ==
    \A c \in Active :
        call[c].client = "new"
            => /\ Len(call[c].url) >= Len(ctorUrl["new"])
               /\ SubSeq(call[c].url, 1, Len(ctorUrl["new"])) = ctorUrl["new"]
               /\ QueryValues(call[c].url, zwsIdParam) = <<ctor["new"]>>

\* C15: the client validates nothing locally: whatever the request holds
\* (empty strings, zero and negative integers included) a call that was
\* made has issued its GET, and a call fails only with the error of the
\* transport or of the decoder, never before the request is sent.
C15_NoLocalValidation ==
    \A c \in Active :
        /\ call[c].gets >= 1
        /\ call[c].url # <<>>
        /\ call[c].ret.err # Nil
              => /\ call[c].neterr # Nil \/ call[c].resp # Nil
                 /\ call[c].ret.err[1].kind \in {"transport", "decode"}

\* GetMonthlyPayments with a zero price, a negative amount down and an
\* empty zip code is waiting for the answer to its GET.
C15_Witness ==
    \E c \in Active :
        /\ pc[c] = "get"
        /\ call[c].op = "GetMonthlyPayments"
        /\ call[c].request.Price = 0
        /\ call[c].request.DollarsDown < 0
        /\ call[c].request.Zip = <<>>
        /\ call[c].gets = 1

\* C16: for every operation, a well-formed response whose root element is
\* not the one the operation expects makes the call fail with a decode
\* error and return a nil Result.
C16_OtherRootFails ==
    \A c \in Answered :
        (/\ WellFormed(call[c].resp[1].toks)
         /\ RootName(call[c].resp[1].toks) # RootOf(call[c].op))
            => /\ call[c].ret.result = Nil
               /\ call[c].ret.err # Nil
               /\ call[c].ret.err[1].kind = "decode"

\* GetChart was answered with a well-formed zestimate document.
C16_Witness ==
    \E c \in Answered :
        /\ call[c].op = "GetChart"
        /\ WellFormed(call[c].resp[1].toks)
        /\ RootName(call[c].resp[1].toks) = "zestimate"

\* The document of the service for the request of call cl, siblings in the
\* order the service writes them.
InOrder(cl) == Document(cl.op, cl.url, SuccessMessage.text, SuccessMessage.code)

SameDecoding(cl, r) ==
    /\ r.err = Nil
    /\ cl.ret.err = Nil
    /\ cl.ret.result = Ptr(r.v)

\* C17: decoding does not depend on the order of sibling elements: a
\* response that differs from the service's document only in the order of
\* siblings bound to different fields (request, message and response under
\* the root; street and zipcode under address) decodes to an equal Result.
C17_SiblingOrderFree ==
    \A c \in Answered :
        call[c].resp[1].kind = "reordered"
            => SameDecoding(call[c], Decode(ResultType(call[c].op), InOrder(call[c])))

\* GetZestimate answered with a document that has the response before the
\* message before the request, and the zip code before the street.
C17_Witness ==
    \E c \in Answered :
        LET toks == call[c].resp[1].toks
        IN  /\ call[c].op = "GetZestimate"
            /\ call[c].resp[1].kind = "reordered"
            /\ toks # InOrder(call[c])
            /\ WellFormed(toks)
            /\ ElementsAt(toks, <<"zestimate", "response">>)[1]
                  < ElementsAt(toks, <<"zestimate", "message">>)[1]
            /\ ElementsAt(toks, <<"zestimate", "message">>)[1]
                  < ElementsAt(toks, <<"zestimate", "request">>)[1]
            /\ ElementsAt(toks, <<"zestimate", "response", "address", "zipcode">>)[1]
                  < ElementsAt(toks, <<"zestimate", "response", "address", "street">>)[1]
            /\ call[c].ret.result # Nil

\* The text a request field of the given kind is to be sent as.
SentAs(kind, v) ==
    CASE kind = "bool" -> IF v THEN <<"t", "r", "u", "e">> ELSE <<"f", "a", "l", "s", "e">>
      [] kind = "int" -> IF v = 0 THEN <<"0">> ELSE Itoa(v)
      [] kind = "string" -> v

FieldKind(op, field) ==
    RequestType(op).fields[FieldIndex(RequestType(op), field)].kind

\* C18: request fields left at their zero value are still sent, never
\* omitted: every field of the request is in the query exactly once, false
\* as "false" (true as "true"), an integer in decimal (0 as "0"), an empty
\* string as an empty value; a request built without setting Rentzestimate
\* carries rentzestimate=false exactly once.
C18_ZeroValuesSent ==
    \A c \in Active :
        LET params == DocumentedParams(call[c].op)
            u == call[c].url
        IN  /\ Cardinality(QueryKeys(u)) = Len(params) + 1
            /\ \A p \in Range(params) :
                  LET text == SentAs(FieldKind(call[c].op, p[2]), call[c].request[p[2]])
                  IN  /\ \E k \in QueryKeys(u) : QueryValues(u, k[1]) = <<text>>
                      /\ p[1] # "neighborhood" => QueryValues(u, p[1]) = <<text>>

\* GetComps called with a request of zero values.
C18_Witness ==
    \E c \in Active :
        /\ call[c].op = "GetComps"
        /\ call[c].request = ZeroStruct(CompsRequest)
        /\ QueryValues(call[c].url, "rentzestimate") = <<<<"f", "a", "l", "s", "e">>>>
        /\ QueryValues(call[c].url, "count") = <<<<"0">>>>
        /\ QueryValues(call[c].url, "zpid") = <<<<>>>>

\* The request element of the response echoes, for field f, the value the
\* caller's request holds: the element's text is that value, or there is
\* no element and the value is zero.
Echoes(toks, at, f, v) ==
    IF at = <<>> THEN IsZeroField(f, v) ELSE TextAt(toks, at[1]) = SentAs(f.kind, v)

RequestFromResponse(cl) ==
    LET t == RequestType(cl.op)
        toks == cl.resp[1].toks
        got == cl.ret.result[1].Request
        at(f) == ElementsAt(toks, <<RootOf(cl.op), "request", f.name>>)
    IN  /\ \A i \in 1..Len(t.fields) :
              LET f == t.fields[i]
              IN  IF at(f) = <<>> THEN IsZeroField(f, got[f.field])
                  ELSE SentAs(f.kind, got[f.field]) = TextAt(toks, at(f)[1])
        /\ got = cl.request
              <=> \A i \in 1..Len(t.fields) :
                      Echoes(toks, at(t.fields[i]), t.fields[i], cl.request[t.fields[i].field])

\* C19: for every operation the Request of the returned Result comes from
\* the request element of the response alone: it equals the caller's
\* request exactly when the server echoes the same values, and a field the
\* response's request element omits is zero in it even if the caller set it.
C19_RequestFromResponse == \A c \in Decodings : RequestFromResponse(call[c])

\* GetRegionChart: the response echoes the city the caller set and omits
\* the neighborhood the caller set.
C19_Witness ==
    \E c \in Decodings :
        /\ call[c].op = "GetRegionChart"
        /\ call[c].request.Neighborhood # <<>>
        /\ call[c].request.City # <<>>
        /\ call[c].ret.result[1].Request.Neighborhood = <<>>
        /\ call[c].ret.result[1].Request.City = call[c].request.City

\* The positions of the start tags of the children named name of the
\* element whose start tag is at i.
ChildrenNamed(toks, i, name) ==
    SelectSeq(ChildrenOf(toks, i + 1, EndOf(toks, i)), LAMBDA p : toks[p].name = name)

\* entry, one entry of the list field f, holds what the element at position
\* i holds: its text, or its string and integer attributes and children.
EntryIs(f, entry, toks, i) ==
    IF f.kind \in {"string", "int"} THEN SentAs(f.kind, entry) = TextAt(toks, i)
    ELSE IF f.kind # "struct" THEN TRUE
    ELSE \A n \in 1..Len(f.elem.fields) :
            LET g == f.elem.fields[n]
            IN  IF g.kind \notin {"string", "int"} \/ g.slice \/ g.parents # <<>> THEN TRUE
                ELSE CASE g.mode = "attr" ->
                            HasAttr(toks, i, g.name)
                                => SentAs(g.kind, entry[g.field]) = AttrAt(toks, i, g.name)
                       [] g.mode = "elem" ->
                            ChildrenNamed(toks, i, g.name) # <<>>
                                => SentAs(g.kind, entry[g.field])
                                      = TextAt(toks, ChildrenNamed(toks, i, g.name)[1])
                       [] OTHER -> TRUE

\* Every list field of v, a struct of type t decoded from the one element
\* at path, and of the structs below it, has one entry for each element of
\* its path, in the order of the document.
RECURSIVE ListsInOrder(_, _, _, _)
ListsInOrder(t, v, toks, path) ==
    \A n \in 1..Len(t.fields) :
        LET f == t.fields[n]
            at == ElementsAt(toks, path \o f.parents \o <<f.name>>)
        IN  IF f.mode # "elem" THEN TRUE
            ELSE IF f.slice
            THEN /\ Len(v[f.field]) = Len(at)
                 /\ \A j \in 1..Len(at) : EntryIs(f, v[f.field][j], toks, at[j])
            ELSE (f.kind = "struct" /\ Len(at) = 1)
                    => ListsInOrder(f.elem, v[f.field], toks, path \o f.parents \o <<f.name>>)

\* C20: every list-valued Result field (search results, comparables, local
\* real-estate regions, child regions, rates, payments, image URLs) has
\* one entry per matching element of the response, in document order:
\* none dropped, duplicated or reordered.
C20_ListsInDocumentOrder ==
    \A c \in Decodings :
        ListsInOrder(ResultType(call[c].op), call[c].ret.result[1], call[c].resp[1].toks,
                     <<RootOf(call[c].op)>>)

\* GetComps decoded two comparables that differ.
C20_Witness ==
    \E c \in Decodings :
        /\ call[c].op = "GetComps"
        /\ Len(call[c].ret.result[1].Comparables) = 2
        /\ call[c].ret.result[1].Comparables[1] # call[c].ret.result[1].Comparables[2]
        /\ Len(ElementsAt(call[c].resp[1].toks,
                          <<"comps", "response", "properties", "comparables", "comp">>)) = 2

\* toks starts with a complete, well-formed document (prolog and root
\* element) and goes on with tokens that make the whole not well-formed.
SpoiledAfterRoot(toks) ==
    /\ ~WellFormed(toks)
    /\ \E n \in 1..(Len(toks) - 1) : WellFormed(SubSeq(toks, 1, n))

\* C21: the client reads the full response body before it decides the
\* outcome: a body made of a complete, well-formed root element followed by
\* more that makes the document not well-formed (a second root element, an
\* unclosed tag) makes the call fail with a decode error instead of
\* returning a Result.
C21_FullBodyRead ==
    \A c \in Answered :
        SpoiledAfterRoot(call[c].resp[1].toks)
            => /\ call[c].ret.err # Nil
               /\ call[c].ret.err[1].kind = "decode"
               /\ call[c].ret.result = Nil

DecimalDigits == {"0", "1", "2", "3", "4", "5", "6", "7", "8", "9"}

\* text can be read as a value of the kind: an integer is an optional sign
\* and digits, a decimal number has at most one "." among them, a boolean
\* is one of the words and digits that stand for true and false.
Numeral(kind, text) ==
    LET signed == text # <<>> /\ text[1] \in {"-", "+"}
        body == IF signed THEN Tail(text) ELSE text
        dots == {i \in 1..Len(body) : body[i] = "."}
    IN  CASE kind = "int" -> body # <<>> /\ \A i \in 1..Len(body) : body[i] \in DecimalDigits
          [] kind = "float64" ->
                /\ Cardinality(dots) <= 1
                /\ Len(body) > Cardinality(dots)
                /\ \A i \in 1..Len(body) : body[i] \in DecimalDigits \cup {"."}
          [] kind = "bool" ->
                text \in {<<"t", "r", "u", "e">>, <<"f", "a", "l", "s", "e">>, <<"1">>, <<"0">>}
          [] OTHER -> TRUE

\* The document holds, for a numeric or boolean field of the struct type t
\* decoded from the elements at path (or of a struct below it), an element
\* or attribute with text that is not empty and is no value of the kind.
RECURSIVE BadNumberIn(_, _, _)
BadNumberIn(t, toks, path) ==
    \E n \in 1..Len(t.fields) :
        LET f == t.fields[n]
            own == Range(ElementsAt(toks, path))
            at == Range(ElementsAt(toks, path \o f.parents \o <<f.name>>))
            bad(text) == text # <<>> /\ ~Numeral(f.kind, text)
        IN  CASE f.mode = "attr" ->
                    \E p \in own : HasAttr(toks, p, f.name) /\ bad(AttrAt(toks, p, f.name))
              [] f.mode = "chardata" -> \E p \in own : bad(TextAt(toks, p))
              [] f.mode = "elem" /\ f.kind = "struct" ->
                    at # {} /\ BadNumberIn(f.elem, toks, path \o f.parents \o <<f.name>>)
              [] f.mode = "elem" /\ f.kind # "struct" -> \E p \in at : bad(TextAt(toks, p))
              [] OTHER -> FALSE

\* C22: for every operation, a well-formed response in which an element or
\* attribute bound to a numeric or boolean field holds text that is no
\* value of that type (a non-integer message code, a non-integer money
\* amount) makes the call fail with a decode error and return a nil Result,
\* not a Result with the field at zero.
C22_BadNumberFails ==
    \A c \in Answered :
        (/\ WellFormed(call[c].resp[1].toks)
         /\ RootName(call[c].resp[1].toks) = RootOf(call[c].op)
         /\ BadNumberIn(ResultType(call[c].op), call[c].resp[1].toks, <<RootOf(call[c].op)>>))
            => /\ call[c].ret.result = Nil
               /\ call[c].ret.err # Nil
               /\ call[c].ret.err[1].kind = "decode"

\* GetRateSummary answered with a well-formed document whose first rate has
\* a count attribute that is no integer.
C22_Witness ==
    \E c \in Answered :
        LET toks == call[c].resp[1].toks
            rates == ElementsAt(toks, <<"rateSummary", "response", "today", "rate">>)
        IN  /\ call[c].op = "GetRateSummary"
            /\ WellFormed(toks)
            /\ rates # <<>>
            /\ AttrAt(toks, rates[1], "count") = NotANumber
            /\ call[c].ret.err # Nil

\* The Result fields of GetUpdatedPropertyDetails for the descriptions of
\* the home, each with the element of the response it is to hold.
DescriptionElements ==
    <<<<"HomeDescriptions", "homeDescription">>, <<"Neighborhood", "neighborhood">>,
      <<"SchoolDistrict", "schoolDistrict">>, <<"ElementarySchool", "elementarySchool">>,
      <<"MiddleSchool", "middleSchool">>>>

\* C23: GetUpdatedPropertyDetails decodes every value of the response
\* payload: when the response element holds a home description,
\* neighborhood, schoolDistrict, elementarySchool or middleSchool element,
\* the Result's HomeDescriptions, Neighborhood, SchoolDistrict,
\* ElementarySchool and MiddleSchool equal their text, as the address and
\* the images are decoded from under the response element.
C23_DescriptionsDecoded ==
    \A c \in Decodings :
        call[c].op = "GetUpdatedPropertyDetails"
            => \A p \in Range(DescriptionElements) :
                  LET toks == call[c].resp[1].toks
                      at == ElementsAt(toks, <<"updatedPropertyDetails", "response", p[2]>>)
                  IN  at # <<>> => call[c].ret.result[1][p[1]] = TextAt(toks, at[1])

\* C24: for every operation and every request field, the query key the
\* field is sent under is the element name the same field is decoded from
\* in the echoed request element: the query holds, under that name, the
\* field's value once; so GetRegionChart sends Neighborhood under the key
\* "neighborhood".
C24_KeyIsEchoName ==
    \A c \in Active :
        LET t == RequestType(call[c].op)
        IN  \A n \in 1..Len(t.fields) :
                QueryValues(call[c].url, t.fields[n].name)
                    = <<SentAs(t.fields[n].kind, call[c].request[t.fields[n].field])>>

Count(s, tok) == Cardinality({i \in 1..Len(s) : s[i] = tok})

\* C25: query encoding round-trips: for every operation and every string
\* request value (values with spaces, commas, "&", "=" and non-ASCII
\* characters included) the server that parses the query it received gets,
\* for each key, exactly one value, equal to the request field; no value is
\* split into or merged with another parameter.
C25_QueryRoundTrip ==
    \A c \in Active :
        LET t == RequestType(call[c].op)
            raw == RawQuery(call[c].url)
            pairs == ParseQuery(raw)
        IN  /\ Len(pairs) = Len(t.fields) + 1
            /\ Count(raw, "&") = Len(t.fields)
            /\ Count(raw, "=") = Len(t.fields) + 1
            /\ \A i, j \in 1..Len(pairs) : pairs[i][1] = pairs[j][1] => i = j
            /\ \A n \in 1..Len(t.fields) :
                  t.fields[n].kind = "string"
                      => /\ \E i \in 1..Len(pairs) :
                               pairs[i][2] = call[c].request[t.fields[n].field]
                         /\ t.fields[n].field # "Neighborhood"
                               => QueryValues(call[c].url, t.fields[n].name)
                                      = <<call[c].request[t.fields[n].field]>>

\* GetSearchResults with an address that holds a comma, a space, "&", "="
\* and an e-acute.
C25_Witness ==
    \E c \in Active :
        /\ call[c].op = "GetSearchResults"
        /\ {",", " ", "&", "=", "e'"} \subseteq Range(call[c].request.Address)
        /\ QueryValues(call[c].url, "address") = <<call[c].request.Address>>

\* The root element's start tag in toks, Nil when there is none.
RootStart(toks) ==
    LET starts == SelectSeq(toks, LAMBDA t : t.k = "start")
    IN  IF starts = <<>> THEN Nil ELSE <<starts[1]>>

\* toks is one of the service's documents for op but for the namespace of
\* its root element.
DocumentInSomeSpace(op, u, toks) ==
    /\ Len(toks) >= 2
    /\ toks[2].k = "start"
    /\ \E m \in ServiceMessages :
           [toks EXCEPT ![2].space = SpaceOf(op)] = Document(op, u, m.text, m.code)

\* C26: for every operation the XMLName of a returned Result records the
\* root element of the response received: its local name is the operation's
\* root name and its namespace is the one the response's root declares; a
\* document decodes whatever namespace (or none) its root is in.
C26_XMLNameIsRoot ==
    \A c \in Answered :
        LET toks == call[c].resp[1].toks
        IN  /\ call[c].ret.result # Nil
                => /\ RootStart(toks) # Nil
                   /\ call[c].ret.result[1]["XMLName"]
                          = [Space |-> RootStart(toks)[1].space,
                             Local |-> RootOf(call[c].op)]
                   /\ RootStart(toks)[1].name = RootOf(call[c].op)
            /\ DocumentInSomeSpace(call[c].op, call[c].url, toks)
                => /\ call[c].ret.err = Nil
                   /\ call[c].ret.result # Nil

\* GetChart answered with its document in a namespace that is not the
\* fixture's, and returning a Result that records it.
C26_Witness ==
    \E c \in Answered :
        /\ call[c].op = "GetChart"
        /\ DocumentInSomeSpace(call[c].op, call[c].url, call[c].resp[1].toks)
        /\ RootStart(call[c].resp[1].toks)[1].space = "urn:example:other"
        /\ call[c].ret.result # Nil
        /\ call[c].ret.result[1]["XMLName"].Space = "urn:example:other"

\* C27: every call that receives an HTTP response releases it before it
\* returns: once no call is under way, no response body the client obtained
\* is still open.
C27_BodiesClosed ==
    (\A c \in Goroutines : pc[c] \in {"idle", "done"}) => open = 0

\* Two calls of the same operation with equal requests on clients with equal
\* application identifier and base URL.
SameCall(c, d) ==
    /\ c \in Active /\ d \in Active
    /\ z[call[c].client] = z[call[d].client]
    /\ call[c].op = call[d].op
    /\ call[c].request = call[d].request

C29_CallReturns ==
    /\ (pc["g1"] \in {"get", "decode"}) ~> (pc["g1"] = "done")
    /\ [][pc["g1"] = "get"
            => \/ pc'["g1"] = "get"
               \/ call'["g1"].neterr # Nil
               \/ call'["g1"].resp # Nil]_vars

\* A call has returned the error of decoding a body cut short.
C29_Witness ==
    /\ pc["g1"] = "done"
    /\ call["g1"].resp # Nil
    /\ call["g1"].resp[1].kind = "truncated"
    /\ call["g1"].ret.err # Nil

====
